---- MODULE Spec2Model ----
(***************************************************************************)
(* Model of the data-alchemist validation engine (src/src/utils/           *)
(* validation.ts): the schema validators, the cross-entity validators and  *)
(* validateAllRows, applied to row collections of the three entity types.  *)
(*                                                                         *)
(* A cell value is a JavaScript value of type string | number | null, or   *)
(* undefined when the row has no such key.  Strings are sequences of       *)
(* one-character strings, so that trim, split, includes, parseInt, Number  *)
(* and JSON.parse are computed as the JavaScript runtime computes them.    *)
(* Numbers are integers; NaN is carried by a flag.                         *)
(***************************************************************************)
EXTENDS Integers, Sequences, FiniteSets, TLC

(***************************************************************************)
(* Bounds of the model.                                                    *)
(***************************************************************************)
MaxRows == 2

(***************************************************************************)
(* JavaScript values.                                                      *)
(***************************************************************************)
Undef == [t |-> "undef", s |-> <<>>, n |-> 0]
Null == [t |-> "null", s |-> <<>>, n |-> 0]
Num(n) == [t |-> "num", s |-> <<>>, n |-> n]
Str(s) == [t |-> "str", s |-> s, n |-> 0]

\* A number that may be NaN (the result of parseInt and Number).
NaN == [nan |-> TRUE, v |-> 0]
Fin(n) == [nan |-> FALSE, v |-> n]

Digits == <<"0", "1", "2", "3", "4", "5", "6", "7", "8", "9">>
IsDigit(c) == \E d \in 1..10 : Digits[d] = c
DigitVal(c) == (CHOOSE d \in 1..10 : Digits[d] = c) - 1
IsSpace(c) == c \in {" ", "\t", "\n"}

RECURSIVE NatToStr(_)
NatToStr(n) ==
  IF n < 10 THEN <<Digits[n + 1]>>
  ELSE NatToStr(n \div 10) \o <<Digits[(n % 10) + 1]>>

\* Number.prototype.toString for an integer or NaN.
NumToStr(x) ==
  IF x.nan THEN <<"N", "a", "N">>
  ELSE IF x.v < 0 THEN <<"-">> \o NatToStr(-x.v)
  ELSE NatToStr(x.v)

\* String(v)
ToStr(v) ==
  CASE v.t = "str" -> v.s
    [] v.t = "num" -> NumToStr(Fin(v.n))
    [] v.t = "null" -> <<"n", "u", "l", "l">>
    [] OTHER -> <<"u", "n", "d", "e", "f", "i", "n", "e", "d">>

\* The truthiness of a cell value: `if (row.X)`.
Truthy(v) ==
  CASE v.t = "str" -> v.s # <<>>
    [] v.t = "num" -> v.n # 0
    [] OTHER -> FALSE

\* `v || ''`
OrEmpty(v) == IF Truthy(v) THEN v ELSE Str(<<>>)

(***************************************************************************)
(* String.prototype operations.                                            *)
(***************************************************************************)
RECURSIVE TrimStart(_)
TrimStart(s) ==
  IF s # <<>> /\ IsSpace(Head(s)) THEN TrimStart(Tail(s)) ELSE s

RECURSIVE TrimEnd(_)
TrimEnd(s) ==
  IF s # <<>> /\ IsSpace(s[Len(s)]) THEN TrimEnd(SubSeq(s, 1, Len(s) - 1)) ELSE s

Trim(s) == TrimEnd(TrimStart(s))

StartsWith(s, p) == Len(p) <= Len(s) /\ SubSeq(s, 1, Len(p)) = p
EndsWith(s, p) == Len(p) <= Len(s) /\ SubSeq(s, Len(s) - Len(p) + 1, Len(s)) = p

\* s.includes(p)
Includes(s, p) ==
  \E i \in 1..(Len(s) - Len(p) + 1) : SubSeq(s, i, i + Len(p) - 1) = p

\* s.split(c) for a one-character separator: never empty, "" splits to [""].
RECURSIVE Split(_, _)
Split(s, c) ==
  IF \A i \in 1..Len(s) : s[i] # c THEN <<s>>
  ELSE LET i == CHOOSE j \in 1..Len(s) : s[j] = c /\ \A k \in 1..(j - 1) : s[k] # c
       IN <<SubSeq(s, 1, i - 1)>> \o Split(SubSeq(s, i + 1, Len(s)), c)

\* a.join(sep)
RECURSIVE Join(_, _)
Join(a, sep) ==
  IF a = <<>> THEN <<>>
  ELSE IF Len(a) = 1 THEN a[1]
  ELSE a[1] \o sep \o Join(Tail(a), sep)

LowerChar(c) ==
  CASE c = "A" -> "a" [] c = "B" -> "b" [] c = "J" -> "j" [] c = "P" -> "p"
    [] c = "S" -> "s" [] c = "T" -> "t" [] c = "N" -> "n" [] OTHER -> c

\* s.toLowerCase() over the letters the inputs use.
ToLowerCase(s) == [i \in 1..Len(s) |-> LowerChar(s[i])]

MapSeq(f(_), a) == [i \in 1..Len(a) |-> f(a[i])]

RECURSIVE FilterSeq(_, _)
FilterSeq(p(_), a) ==
  IF a = <<>> THEN <<>>
  ELSE (IF p(Head(a)) THEN <<Head(a)>> ELSE <<>>) \o FilterSeq(p, Tail(a))

RECURSIVE FlatSeq(_)
FlatSeq(a) == IF a = <<>> THEN <<>> ELSE Head(a) \o FlatSeq(Tail(a))

(***************************************************************************)
(* parseInt and Number.                                                    *)
(***************************************************************************)
RECURSIVE DigitsPrefix(_)
DigitsPrefix(s) ==
  IF s # <<>> /\ IsDigit(Head(s)) THEN <<Head(s)>> \o DigitsPrefix(Tail(s)) ELSE <<>>

RECURSIVE DigitsVal(_)
DigitsVal(d) ==
  IF d = <<>> THEN 0 ELSE 10 * DigitsVal(SubSeq(d, 1, Len(d) - 1)) + DigitVal(d[Len(d)])

\* parseInt(s): leading white space, an optional sign, the longest digit prefix.
ParseIntStr(s) ==
  LET t == TrimStart(s)
      neg == t # <<>> /\ Head(t) = "-"
      body == IF t # <<>> /\ Head(t) \in {"-", "+"} THEN Tail(t) ELSE t
      d == DigitsPrefix(body)
  IN IF d = <<>> THEN NaN
     ELSE Fin(IF neg THEN -DigitsVal(d) ELSE DigitsVal(d))

\* Number(s) for a string: the whole trimmed string must be a numeral; "" is 0.
NumberStr(s) ==
  LET t == Trim(s)
      neg == t # <<>> /\ Head(t) = "-"
      body == IF t # <<>> /\ Head(t) \in {"-", "+"} THEN Tail(t) ELSE t
  IN IF t = <<>> THEN Fin(0)
     ELSE IF body # <<>> /\ DigitsPrefix(body) = body
          THEN Fin(IF neg THEN -DigitsVal(body) ELSE DigitsVal(body))
          ELSE NaN

\* Number(v)
ToNumber(v) ==
  CASE v.t = "str" -> NumberStr(v.s)
    [] v.t = "num" -> Fin(v.n)
    [] v.t = "null" -> Fin(0)
    [] OTHER -> NaN

(***************************************************************************)
(* JSON.parse and JSON.stringify.  A JSON value is a record: k is its kind *)
(* ("num", "str", "lit" for true/false/null, "arr", "obj"), n the number,  *)
(* s the string or literal text, keys an object's keys in order and items  *)
(* the elements of an array or the member values of an object.  Numerals   *)
(* are integers (the inputs hold no fraction or exponent).                 *)
(***************************************************************************)
JNum(n) == [k |-> "num", n |-> n, s |-> <<>>, keys |-> <<>>, items |-> <<>>]
JStr(s) == [k |-> "str", n |-> 0, s |-> s, keys |-> <<>>, items |-> <<>>]
JLit(s) == [k |-> "lit", n |-> 0, s |-> s, keys |-> <<>>, items |-> <<>>]
JArr(items) == [k |-> "arr", n |-> 0, s |-> <<>>, keys |-> <<>>, items |-> items]
JObj(keys, items) == [k |-> "obj", n |-> 0, s |-> <<>>, keys |-> keys, items |-> items]

\* A parse step's outcome: ok, the index after what was read, the value read.
JFail == [ok |-> FALSE, next |-> 0, val |-> JLit(<<>>)]
JOk(next, val) == [ok |-> TRUE, next |-> next, val |-> val]

RECURSIVE SkipWs(_, _)
SkipWs(s, i) == IF i <= Len(s) /\ IsSpace(s[i]) THEN SkipWs(s, i + 1) ELSE i

JEscapes == {"\"", "\\", "/", "b", "f", "n", "r", "t"}

\* The characters of a string literal whose opening quote is before index i.
RECURSIVE ParseStringBody(_, _, _)
ParseStringBody(s, i, acc) ==
  IF i > Len(s) THEN JFail
  ELSE IF s[i] = "\"" THEN JOk(i + 1, JStr(acc))
  ELSE IF s[i] \in {"\t", "\n"} THEN JFail
  ELSE IF s[i] = "\\"
       THEN IF i + 1 <= Len(s) /\ s[i + 1] \in JEscapes
            THEN ParseStringBody(s, i + 2, Append(acc, s[i + 1]))
            ELSE JFail
  ELSE ParseStringBody(s, i + 1, Append(acc, s[i]))

\* -? (0 | [1-9][0-9]*) starting at index i.
NumberAfterSign(s, j, neg, d) ==
  IF d = <<>> THEN JFail
  ELSE IF Head(d) = "0" THEN JOk(j + 1, JNum(0))
  ELSE JOk(j + Len(d), JNum(IF neg THEN -DigitsVal(d) ELSE DigitsVal(d)))

ParseNumber(s, i) ==
  IF s[i] = "-" THEN NumberAfterSign(s, i + 1, TRUE, DigitsPrefix(SubSeq(s, i + 1, Len(s))))
  ELSE NumberAfterSign(s, i, FALSE, DigitsPrefix(SubSeq(s, i, Len(s))))

JLiterals == {<<"t", "r", "u", "e">>, <<"f", "a", "l", "s", "e">>, <<"n", "u", "l", "l">>}

ParseLiteral(s, i, found) ==
  IF found = {} THEN JFail
  ELSE JOk(i + Len(CHOOSE l \in found : TRUE), JLit(CHOOSE l \in found : TRUE))

ParseKey(s, i) ==
  IF i <= Len(s) /\ s[i] = "\"" THEN ParseStringBody(s, i + 1, <<>>) ELSE JFail

RECURSIVE ParseValueAt(_, _)
RECURSIVE Elements(_, _, _)
RECURSIVE Members(_, _, _, _)
RECURSIVE MemberValue(_, _, _, _)

\* The value that starts at index i (the white space before it is skipped).
ParseValueAt(s, i) ==
  LET j == SkipWs(s, i + 1)
  IN IF i > Len(s) THEN JFail
     ELSE IF s[i] = "[" THEN
            IF j <= Len(s) /\ s[j] = "]" THEN JOk(j + 1, JArr(<<>>))
            ELSE Elements(s, <<>>, ParseValueAt(s, j))
     ELSE IF s[i] = "{" THEN
            IF j <= Len(s) /\ s[j] = "}" THEN JOk(j + 1, JObj(<<>>, <<>>))
            ELSE Members(s, <<>>, <<>>, ParseKey(s, j))
     ELSE IF s[i] = "\"" THEN ParseStringBody(s, i + 1, <<>>)
     ELSE IF s[i] = "-" \/ IsDigit(s[i]) THEN ParseNumber(s, i)
     ELSE ParseLiteral(s, i, {l \in JLiterals : StartsWith(SubSeq(s, i, Len(s)), l)})

\* An array after its elements acc and the element v: "]" ends it, "," is
\* followed by the next element.
Elements(s, acc, v) ==
  LET j == SkipWs(s, v.next)
  IN IF ~v.ok \/ j > Len(s) THEN JFail
     ELSE IF s[j] = "]" THEN JOk(j + 1, JArr(Append(acc, v.val)))
     ELSE IF s[j] = ","
          THEN Elements(s, Append(acc, v.val), ParseValueAt(s, SkipWs(s, j + 1)))
     ELSE JFail

\* An object after its members (keys, acc) and the next member's key: ":"
\* and the member's value follow.
Members(s, keys, acc, key) ==
  LET c == SkipWs(s, key.next)
  IN IF ~key.ok \/ c > Len(s) THEN JFail
     ELSE IF s[c] = ":"
          THEN MemberValue(s, Append(keys, key.val.s), acc, ParseValueAt(s, SkipWs(s, c + 1)))
     ELSE JFail

\* An object after a member's value v: "}" ends it, "," is followed by the
\* next member.
MemberValue(s, keys, acc, v) ==
  LET j == SkipWs(s, v.next)
  IN IF ~v.ok \/ j > Len(s) THEN JFail
     ELSE IF s[j] = "}" THEN JOk(j + 1, JObj(keys, Append(acc, v.val)))
     ELSE IF s[j] = ","
          THEN Members(s, keys, Append(acc, v.val), ParseKey(s, SkipWs(s, j + 1)))
     ELSE JFail

\* The parse succeeds when only white space follows the value.
WholeText(s, v) == IF v.ok /\ SkipWs(s, v.next) > Len(s) THEN v ELSE JFail

\* JSON.parse(s): ok is FALSE where JSON.parse throws a SyntaxError.
JSONParse(s) == WholeText(s, ParseValueAt(s, SkipWs(s, 1)))

\* JSON.stringify(v): no white space, members in key order.
RECURSIVE JSONStringify(_)
JSONStringify(v) ==
  CASE v.k = "num" -> NumToStr(Fin(v.n))
    [] v.k = "str" -> <<"\"">> \o v.s \o <<"\"">>
    [] v.k = "lit" -> v.s
    [] v.k = "arr" ->
         <<"[">> \o Join([i \in 1..Len(v.items) |-> JSONStringify(v.items[i])], <<",">>)
                 \o <<"]">>
    [] OTHER ->
         <<"{">> \o Join([i \in 1..Len(v.items) |->
                            <<"\"">> \o v.keys[i] \o <<"\"", ":">>
                                     \o JSONStringify(v.items[i])], <<",">>)
                 \o <<"}">>

(***************************************************************************)
(* Entity types, their columns (ENTITY_SCHEMAS) and their rows.  A row is  *)
(* a function from the columns of its entity type to cell values; Undef    *)
(* stands for a key the row does not have.                                 *)
(***************************************************************************)
EntityTypes == {"clients", "workers", "tasks"}

ENTITY_SCHEMAS ==
  [clients |-> <<"ClientID", "ClientName", "PriorityLevel", "RequestedTaskIDs",
                 "GroupTag", "AttributesJSON">>,
   workers |-> <<"WorkerID", "WorkerName", "Skills", "AvailableSlots",
                 "MaxLoadPerPhase", "WorkerGroup", "QualificationLevel">>,
   tasks |-> <<"TaskID", "TaskName", "Category", "Duration", "RequiredSkills",
               "PreferredPhases", "MaxConcurrent">>]

Columns(entityType) ==
  {ENTITY_SCHEMAS[entityType][i] : i \in 1..Len(ENTITY_SCHEMAS[entityType])}

\* row[column], undefined when the row is of another entity type.
Cell(row, column) == IF column \in DOMAIN row THEN row[column] ELSE Undef

\* A ValidationError.  rowIndex counts from 0; the message is its fixed text
\* and the texts interpolated into it.
VError(rowIndex, column, msg, args, severity) ==
  [rowIndex |-> rowIndex, column |-> column,
   error |-> [msg |-> msg, args |-> args], severity |-> severity]

(***************************************************************************)
(* The zod schemas.  A field is a required non-empty string ("string"), an *)
(* optional string with a default ("optional"), or a string-or-number      *)
(* passed to a transform that throws a plain Error unless the number       *)
(* parsed from it is at least min and, with hasMax, at most max            *)
(* ("number"); QualificationLevel's transform never throws ("lenient").    *)
(***************************************************************************)
ZString(col, msg) ==
  [col |-> col, kind |-> "string", msg |-> msg, min |-> 1, hasMax |-> FALSE, max |-> 0]
ZOptional(col) ==
  [col |-> col, kind |-> "optional", msg |-> "", min |-> 0, hasMax |-> FALSE, max |-> 0]
ZNumber(col, min, hasMax, max) ==
  [col |-> col, kind |-> "number", msg |-> "", min |-> min, hasMax |-> hasMax, max |-> max]
ZLenient(col) ==
  [col |-> col, kind |-> "lenient", msg |-> "", min |-> 0, hasMax |-> FALSE, max |-> 0]

ClientSchemaZod ==
  <<ZString("ClientID", "ClientID is required"),
    ZString("ClientName", "ClientName is required"),
    ZNumber("PriorityLevel", 1, TRUE, 5),
    ZOptional("RequestedTaskIDs"),
    ZString("GroupTag", "GroupTag is required"),
    ZOptional("AttributesJSON")>>

WorkerSchemaZod ==
  <<ZString("WorkerID", "WorkerID is required"),
    ZString("WorkerName", "WorkerName is required"),
    ZString("Skills", "Skills are required"),
    ZString("AvailableSlots", "AvailableSlots are required"),
    ZNumber("MaxLoadPerPhase", 1, FALSE, 0),
    ZString("WorkerGroup", "WorkerGroup is required"),
    ZLenient("QualificationLevel")>>

TaskSchemaZod ==
  <<ZString("TaskID", "TaskID is required"),
    ZString("TaskName", "TaskName is required"),
    ZString("Category", "Category is required"),
    ZNumber("Duration", 1, FALSE, 0),
    ZString("RequiredSkills", "RequiredSkills are required"),
    ZString("PreferredPhases", "PreferredPhases are required"),
    ZNumber("MaxConcurrent", 1, FALSE, 0)>>

schemas == [clients |-> ClientSchemaZod, workers |-> WorkerSchemaZod, tasks |-> TaskSchemaZod]

\* zod's invalid_type message for a value that is not a string.
ZTypeMessage(v) ==
  CASE v.t = "undef" -> "Required"
    [] v.t = "null" -> "Expected string, received null"
    [] OTHER -> "Expected string, received number"

ZOk == [status |-> "ok", msg |-> ""]
ZIssue(msg) == [status |-> "issue", msg |-> msg]
ZThrow == [status |-> "throw", msg |-> ""]

\* The transform of a string-or-number field: TRUE when it throws.
TransformThrows(f, v) ==
  LET num == IF v.t = "str" THEN ParseIntStr(v.s) ELSE Fin(v.n)
  IN f.kind = "number" /\ (num.nan \/ num.v < f.min \/ (f.hasMax /\ num.v > f.max))

\* One field of a schema parsed against the row's value for it.
ZParseField(f, v) ==
  CASE f.kind = "string" ->
         IF v.t # "str" THEN ZIssue(ZTypeMessage(v))
         ELSE IF Len(v.s) < f.min THEN ZIssue(f.msg) ELSE ZOk
    [] f.kind = "optional" ->
         IF v.t \in {"undef", "str"} THEN ZOk ELSE ZIssue(ZTypeMessage(v))
    [] OTHER ->
         IF v.t \notin {"str", "num"} THEN ZIssue("Invalid input")
         ELSE IF TransformThrows(f, v) THEN ZThrow ELSE ZOk

\* An exception that leaves a validator, as the caller meets it.
Raised(index) == VError(index, "", "Error", <<>>, "raised")

\* A variant whose catch block throws on what is no ZodError.
validateRequiredFields_Rethrown(row, entityType, index) ==
  LET schema == schemas[entityType]
      parsed == [i \in 1..Len(schema) |-> ZParseField(schema[i], Cell(row, schema[i].col))]
      issue(i) == IF parsed[i].status = "issue"
                  THEN <<VError(index, schema[i].col, parsed[i].msg, <<>>, "error")>>
                  ELSE <<>>
  IN IF \E i \in 1..Len(schema) : parsed[i].status = "throw" THEN <<Raised(index)>>
     ELSE FlatSeq([i \in 1..Len(schema) |-> issue(i)])

\* schemas[entityType].parse(row) inside try/catch: every field is parsed; an
\* Error thrown by a transform leaves parse as no ZodError, and the catch
\* block, which handles ZodError only, pushes nothing.
validateRequiredFields(row, entityType, index) ==
  LET schema == schemas[entityType]
      parsed == [i \in 1..Len(schema) |-> ZParseField(schema[i], Cell(row, schema[i].col))]
      issue(i) == IF parsed[i].status = "issue"
                  THEN <<VError(index, schema[i].col, parsed[i].msg, <<>>, "error")>>
                  ELSE <<>>
  IN IF \E i \in 1..Len(schema) : parsed[i].status = "throw" THEN <<>>
     ELSE FlatSeq([i \in 1..Len(schema) |-> issue(i)])

idFieldOf(entityType) ==
  IF entityType = "clients" THEN "ClientID"
  ELSE IF entityType = "workers" THEN "WorkerID" ELSE "TaskID"

\* String(row[idField] || '')
RowId(row, idField) == ToStr(OrEmpty(Cell(row, idField)))

\* The first loop of validateDuplicateIds, from row i on.
RECURSIVE ScanDuplicateIds(_, _, _, _, _)
ScanDuplicateIds(rows, idField, i, seenIds, duplicateIds) ==
  IF i > Len(rows) THEN duplicateIds
  ELSE LET id == RowId(rows[i], idField)
       IN ScanDuplicateIds(rows, idField, i + 1, seenIds \cup {id},
            IF id # <<>> /\ id \in seenIds THEN duplicateIds \cup {id} ELSE duplicateIds)

\* A variant that reports a row only when an earlier row carries its
\* identifier: the second pass tests seenIds as the first pass does.
validateDuplicateIds_LaterOnly(rows, entityType) ==
  LET idField == idFieldOf(entityType)
      one(i) == LET id == RowId(rows[i], idField)
                IN IF id # <<>> /\ \E j \in 1..(i - 1) : RowId(rows[j], idField) = id
                   THEN <<VError(i - 1, idField, "Duplicate ID: ", <<id>>, "error")>>
                   ELSE <<>>
  IN FlatSeq([i \in 1..Len(rows) |-> one(i)])

\* A variant without the `id &&` test of the first pass: an empty identifier
\* seen twice is a duplicate too.
validateDuplicateIds_EmptyToo(rows, entityType) ==
  LET idField == idFieldOf(entityType)
      one(i) == LET id == RowId(rows[i], idField)
                IN IF \E j \in 1..Len(rows) : j # i /\ RowId(rows[j], idField) = id
                   THEN <<VError(i - 1, idField, "Duplicate ID: ", <<id>>, "error")>>
                   ELSE <<>>
  IN FlatSeq([i \in 1..Len(rows) |-> one(i)])

validateDuplicateIds(rows, entityType) ==
  LET idField == idFieldOf(entityType)
      duplicateIds == ScanDuplicateIds(rows, idField, 1, {}, {})
      one(i) == LET id == RowId(rows[i], idField)
                IN IF id \in duplicateIds
                   THEN <<VError(i - 1, idField, "Duplicate ID: ", <<id>>, "error")>>
                   ELSE <<>>
  IN FlatSeq([i \in 1..Len(rows) |-> one(i)])

\* JSON.parse returned, and Array.isArray holds of what it returned.
IsArray(parsed) == parsed.ok /\ parsed.val.k = "arr"

listFields ==
  [clients |-> <<"RequestedTaskIDs">>, workers |-> <<"Skills">>, tasks |-> <<"RequiredSkills">>]

validateMalformedLists(rows, entityType) ==
  LET attributes(row, i) ==
        LET value == ToStr(Cell(row, "AttributesJSON"))
        IN IF entityType = "clients" /\ Truthy(Cell(row, "AttributesJSON"))
              /\ (StartsWith(Trim(value), <<"{">>) \/ StartsWith(Trim(value), <<"[">>))
              /\ ~JSONParse(value).ok
           THEN <<VError(i - 1, "AttributesJSON", "Invalid JSON format", <<>>, "error")>>
           ELSE <<>>
      slots(row, i) ==
        LET value == ToStr(Cell(row, "AvailableSlots"))
        IN IF entityType = "workers" /\ Truthy(Cell(row, "AvailableSlots"))
              /\ StartsWith(Trim(value), <<"[">>)
              /\ ~IsArray(JSONParse(value))
           THEN <<VError(i - 1, "AvailableSlots",
                         "Invalid array format. Expected JSON array like [1,2,3]",
                         <<>>, "error")>>
           ELSE <<>>
      list(row, i, field) ==
        LET value == ToStr(Cell(row, field))
        IN IF Truthy(Cell(row, field))
              /\ (Includes(value, <<",", ",">>) \/ StartsWith(value, <<",">>)
                  \/ EndsWith(value, <<",">>))
           THEN <<VError(i - 1, field, "Malformed comma-separated list", <<>>, "warning")>>
           ELSE <<>>
      one(i) ==
        attributes(rows[i], i) \o slots(rows[i], i)
        \o FlatSeq([f \in 1..Len(listFields[entityType]) |->
                      list(rows[i], i, listFields[entityType][f])])
  IN FlatSeq([i \in 1..Len(rows) |-> one(i)])

\* row.X !== undefined && row.X !== null && row.X !== ''
Present(v) == v.t \notin {"undef", "null"} /\ v # Str(<<>>)

\* A variant that tests the lower end of each range only.
validateOutOfRangeValues_NoUpper(rows, entityType) ==
  LET check(row, i, forType, column, msg, severity) ==
        LET x == ToNumber(Cell(row, column))
        IN IF entityType = forType /\ Present(Cell(row, column)) /\ (x.nan \/ x.v < 1)
           THEN <<VError(i - 1, column, msg, <<>>, severity)>>
           ELSE <<>>
      one(i) ==
        check(rows[i], i, "clients", "PriorityLevel",
              "PriorityLevel must be between 1-5", "error")
        \o check(rows[i], i, "workers", "MaxLoadPerPhase",
                 "MaxLoadPerPhase must be between 1-10", "warning")
        \o check(rows[i], i, "tasks", "Duration", "Duration must be at least 1", "error")
        \o check(rows[i], i, "tasks", "MaxConcurrent",
                 "MaxConcurrent must be between 1-100", "warning")
  IN FlatSeq([i \in 1..Len(rows) |-> one(i)])

validateOutOfRangeValues(rows, entityType) ==
  LET check(row, i, forType, column, hasMax, max, msg, severity) ==
        LET x == ToNumber(Cell(row, column))
        IN IF entityType = forType /\ Present(Cell(row, column))
              /\ (x.nan \/ x.v < 1 \/ (hasMax /\ x.v > max))
           THEN <<VError(i - 1, column, msg, <<>>, severity)>>
           ELSE <<>>
      one(i) ==
        check(rows[i], i, "clients", "PriorityLevel", TRUE, 5,
              "PriorityLevel must be between 1-5", "error")
        \o check(rows[i], i, "workers", "MaxLoadPerPhase", TRUE, 10,
                 "MaxLoadPerPhase must be between 1-10", "warning")
        \o check(rows[i], i, "tasks", "Duration", FALSE, 0,
                 "Duration must be at least 1", "error")
        \o check(rows[i], i, "tasks", "MaxConcurrent", TRUE, 100,
                 "MaxConcurrent must be between 1-100", "warning")
  IN FlatSeq([i \in 1..Len(rows) |-> one(i)])

\* A variant that classifies the value as written, without trimming it.
validateBrokenJSON_Untrimmed(rows, entityType) ==
  LET one(i) ==
        LET value == ToStr(Cell(rows[i], "AttributesJSON"))
            looksLikeJSON == StartsWith(value, <<"{">>) \/ StartsWith(value, <<"[">>)
        IN IF ~Truthy(Cell(rows[i], "AttributesJSON")) \/ value = <<>> THEN <<>>
           ELSE IF looksLikeJSON
                THEN IF JSONParse(value).ok THEN <<>>
                     ELSE <<VError(i - 1, "AttributesJSON", "Invalid JSON syntax",
                                   <<>>, "error")>>
           ELSE <<VError(i - 1, "AttributesJSON",
                         "AttributesJSON should contain valid JSON format. Plain text found instead.",
                         <<>>, "warning")>>
  IN IF entityType = "clients" THEN FlatSeq([i \in 1..Len(rows) |-> one(i)]) ELSE <<>>

validateBrokenJSON(rows, entityType) ==
  LET one(i) ==
        LET value == Trim(ToStr(Cell(rows[i], "AttributesJSON")))
            looksLikeJSON == StartsWith(value, <<"{">>) \/ StartsWith(value, <<"[">>)
        IN IF ~Truthy(Cell(rows[i], "AttributesJSON")) \/ value = <<>> THEN <<>>
           ELSE IF looksLikeJSON
                THEN IF JSONParse(value).ok THEN <<>>
                     ELSE <<VError(i - 1, "AttributesJSON", "Invalid JSON syntax",
                                   <<>>, "error")>>
           ELSE <<VError(i - 1, "AttributesJSON",
                         "AttributesJSON should contain valid JSON format. Plain text found instead.",
                         <<>>, "warning")>>
  IN IF entityType = "clients" THEN FlatSeq([i \in 1..Len(rows) |-> one(i)]) ELSE <<>>

(***************************************************************************)
(* The cross-entity validators.                                            *)
(***************************************************************************)
\* s.split(',').map(x => x.trim())
SplitTrim(s) == MapSeq(Trim, Split(s, ","))

NonEmpty(s) == s # <<>>

\* new Set(taskRows.map(task => String(task.TaskID)).filter(id => id))
ValidTaskIds(taskRows) ==
  {ToStr(Cell(taskRows[i], "TaskID")) : i \in 1..Len(taskRows)} \ {<<>>}

validateUnknownReferences(clientRows, taskRows, workerRows) ==
  LET validTaskIds == ValidTaskIds(taskRows)
      one(i) ==
        LET taskIds == FilterSeq(NonEmpty,
                                 SplitTrim(ToStr(Cell(clientRows[i], "RequestedTaskIDs"))))
            unknown(taskId) ==
              IF taskId \notin validTaskIds
              THEN <<VError(i - 1, "RequestedTaskIDs", "Unknown task reference: ",
                            <<taskId>>, "error")>>
              ELSE <<>>
        IN IF Truthy(Cell(clientRows[i], "RequestedTaskIDs"))
           THEN FlatSeq(MapSeq(unknown, taskIds))
           ELSE <<>>
  IN FlatSeq([i \in 1..Len(clientRows) |-> one(i)])

\* s.split(',').map(skill => skill.trim().toLowerCase())
SkillsOf(v) == MapSeq(ToLowerCase, SplitTrim(ToStr(v)))

AvailableSkills(workerRows) ==
  UNION {IF Truthy(Cell(workerRows[w], "Skills"))
         THEN {SkillsOf(Cell(workerRows[w], "Skills"))[k] :
                 k \in 1..Len(SkillsOf(Cell(workerRows[w], "Skills")))}
         ELSE {} : w \in 1..Len(workerRows)}

\* A variant that lower-cases the workers' skills only.
validateSkillCoverage_CaseSensitive(taskRows, workerRows) ==
  LET availableSkills == AvailableSkills(workerRows)
      uncovered(skill) == skill \notin availableSkills
      one(i) ==
        LET uncoveredSkills ==
              FilterSeq(uncovered, SplitTrim(ToStr(Cell(taskRows[i], "RequiredSkills"))))
        IN IF Truthy(Cell(taskRows[i], "RequiredSkills")) /\ Len(uncoveredSkills) > 0
           THEN <<VError(i - 1, "RequiredSkills", "No workers have skills: ",
                         <<Join(uncoveredSkills, <<",", " ">>)>>, "warning")>>
           ELSE <<>>
  IN FlatSeq([i \in 1..Len(taskRows) |-> one(i)])

validateSkillCoverage(taskRows, workerRows) ==
  LET availableSkills == AvailableSkills(workerRows)
      uncovered(skill) == skill \notin availableSkills
      one(i) ==
        LET uncoveredSkills == FilterSeq(uncovered, SkillsOf(Cell(taskRows[i], "RequiredSkills")))
        IN IF Truthy(Cell(taskRows[i], "RequiredSkills")) /\ Len(uncoveredSkills) > 0
           THEN <<VError(i - 1, "RequiredSkills", "No workers have skills: ",
                         <<Join(uncoveredSkills, <<",", " ">>)>>, "warning")>>
           ELSE <<>>
  IN FlatSeq([i \in 1..Len(taskRows) |-> one(i)])

(***************************************************************************)
(* validatePhaseSlotSaturation.  phaseDemand and phaseCapacity are objects *)
(* used as maps: a sequence of entries [key, val] in insertion order, the  *)
(* key being the property key (a string) the phase converts to.            *)
(***************************************************************************)
\* The property key a JSON value converts to when used as an index.
RECURSIVE JToKey(_)
JToKey(v) ==
  CASE v.k = "num" -> NumToStr(Fin(v.n))
    [] v.k \in {"str", "lit"} -> v.s
    [] v.k = "arr" ->
         Join([i \in 1..Len(v.items) |->
                 IF v.items[i] = JLit(<<"n", "u", "l", "l">>) THEN <<>>
                 ELSE JToKey(v.items[i])], <<",">>)
    [] OTHER -> <<"[", "o", "b", "j", "e", "c", "t", " ", "O", "b", "j", "e", "c", "t", "]">>

HasKey(map, key) == \E e \in 1..Len(map) : map[e].key = key
Lookup(map, key) == map[CHOOSE e \in 1..Len(map) : map[e].key = key].val

\* map[key] || 0
LookupOr0(map, key) ==
  IF HasKey(map, key) /\ ~Lookup(map, key).nan /\ Lookup(map, key).v # 0
  THEN Lookup(map, key).v ELSE 0

\* map[key] = (map[key] || 0) + amount
AddTo(map, key, amount) ==
  LET sum == IF amount.nan THEN NaN ELSE Fin(LookupOr0(map, key) + amount.v)
  IN IF HasKey(map, key)
     THEN [e \in 1..Len(map) |-> IF map[e].key = key THEN [key |-> key, val |-> sum] ELSE map[e]]
     ELSE Append(map, [key |-> key, val |-> sum])

RECURSIVE AddAll(_, _, _)
AddAll(map, keys, amount) ==
  IF keys = <<>> THEN map ELSE AddAll(AddTo(map, Head(keys), amount), Tail(keys), amount)

\* for (let i = start; i <= end; i++) phases.push(i)
RangeKeys(start, end) ==
  IF start.nan \/ end.nan \/ start.v > end.v THEN <<>>
  ELSE [i \in 1..(end.v - start.v + 1) |-> NumToStr(Fin(start.v + i - 1))]

\* The keys of the phases a parsed JSON text denotes; ok is FALSE where
\* JSON.parse throws or the parsed value has no forEach.
KeysOfParsed(parsed) ==
  IF IsArray(parsed)
  THEN [ok |-> TRUE, keys |-> [i \in 1..Len(parsed.val.items) |-> JToKey(parsed.val.items[i])]]
  ELSE [ok |-> FALSE, keys |-> <<>>]

ArrayKeys(s) == KeysOfParsed(JSONParse(s))

\* phasesStr.split('-').map(p => parseInt(p.trim())), its first two elements.
RangeBounds(phasesStr) ==
  [i \in 1..2 |-> ParseIntStr(Trim(Split(phasesStr, "-")[i]))]

\* The phases read from a task's PreferredPhases.
PreferredPhaseKeys(phasesStr) ==
  IF Includes(phasesStr, <<"[">>) THEN ArrayKeys(phasesStr)
  ELSE IF Includes(phasesStr, <<"-">>)
       THEN [ok |-> TRUE, keys |-> RangeKeys(RangeBounds(phasesStr)[1], RangeBounds(phasesStr)[2])]
  ELSE [ok |-> TRUE, keys |-> <<NumToStr(ParseIntStr(phasesStr))>>]

\* The slots read from a worker's AvailableSlots: a JSON array or nothing.
AvailableSlotKeys(slotsStr) ==
  IF Includes(slotsStr, <<"[">>) THEN ArrayKeys(slotsStr)
  ELSE [ok |-> TRUE, keys |-> <<>>]

\* One pass of the task loop: the demand map and the rows whose phases could
\* not be read (the catch block), after task row i with phases `phases`.
DemandStep(scan, task, i, phases) ==
  IF ~(Truthy(Cell(task, "PreferredPhases")) /\ Truthy(Cell(task, "Duration"))) THEN scan
  ELSE IF ~phases.ok THEN [scan EXCEPT !.failed = Append(@, i)]
  ELSE [scan EXCEPT !.phaseDemand = AddAll(@, phases.keys, ToNumber(Cell(task, "Duration")))]

RECURSIVE DemandScan(_, _, _)
DemandScan(taskRows, i, scan) ==
  IF i > Len(taskRows) THEN scan
  ELSE DemandScan(taskRows, i + 1,
         DemandStep(scan, taskRows[i], i,
                    PreferredPhaseKeys(ToStr(Cell(taskRows[i], "PreferredPhases")))))

\* One pass of the worker loop: an exception is caught and ignored.
CapacityStep(phaseCapacity, worker, slots) ==
  IF Truthy(Cell(worker, "AvailableSlots")) /\ Truthy(Cell(worker, "MaxLoadPerPhase"))
     /\ slots.ok
  THEN AddAll(phaseCapacity, slots.keys, ToNumber(Cell(worker, "MaxLoadPerPhase")))
  ELSE phaseCapacity

RECURSIVE CapacityScan(_, _, _)
CapacityScan(workerRows, i, phaseCapacity) ==
  IF i > Len(workerRows) THEN phaseCapacity
  ELSE CapacityScan(workerRows, i + 1,
         CapacityStep(phaseCapacity, workerRows[i],
                      AvailableSlotKeys(ToStr(Cell(workerRows[i], "AvailableSlots")))))

\* A key that Object.entries lists in ascending numeric order, before the
\* other keys: the canonical text of a non-negative integer.
IsIndexKey(key) == key # <<>> /\ DigitsPrefix(key) = key /\ key = NatToStr(DigitsVal(key))

\* The entries with index keys, in ascending order of the key.
RECURSIVE SortIndexEntries(_)
SortIndexEntries(entries) ==
  IF entries = <<>> THEN <<>>
  ELSE LET m == CHOOSE e \in 1..Len(entries) :
                  \A f \in 1..Len(entries) :
                    DigitsVal(entries[e].key) <= DigitsVal(entries[f].key)
       IN <<entries[m]>>
          \o SortIndexEntries([k \in 1..(Len(entries) - 1) |->
                                 IF k < m THEN entries[k] ELSE entries[k + 1]])

RECURSIVE SelectEntries(_, _)
SelectEntries(map, index) ==
  IF map = <<>> THEN <<>>
  ELSE (IF IsIndexKey(Head(map).key) = index THEN <<Head(map)>> ELSE <<>>)
       \o SelectEntries(Tail(map), index)

\* Object.entries(map)
ObjectEntries(map) == SortIndexEntries(SelectEntries(map, TRUE)) \o SelectEntries(map, FALSE)

\* phaseCapacity[parseInt(phase)] || 0
CapacityOf(phaseCapacity, phase) == LookupOr0(phaseCapacity, NumToStr(ParseIntStr(phase)))

\* The test that decides which task rows a saturated phase is reported on.
RowNamesPhase(task, phase) ==
  Truthy(Cell(task, "PreferredPhases")) /\ Includes(ToStr(Cell(task, "PreferredPhases")), phase)

\* demand > capacity
Oversaturated(demand, capacity) == ~demand.nan /\ demand.v > capacity

\* The warnings of one entry of phaseDemand whose capacity is `capacity`.
PhaseWarnings(taskRows, phase, demand, capacity) ==
  IF Oversaturated(demand, capacity)
  THEN FlatSeq([i \in 1..Len(taskRows) |->
                  IF RowNamesPhase(taskRows[i], phase)
                  THEN <<VError(i - 1, "PreferredPhases",
                                "Phase is oversaturated: demand vs capacity",
                                <<phase, NumToStr(demand), NumToStr(Fin(capacity))>>,
                                "warning")>>
                  ELSE <<>>])
  ELSE <<>>

\* The errors pushed by the task loop, then the Object.entries loop.
SaturationErrors(taskRows, scan, phaseCapacity, entries) ==
  [k \in 1..Len(scan.failed) |->
     VError(scan.failed[k] - 1, "PreferredPhases", "Invalid phase format", <<>>, "error")]
  \o FlatSeq([e \in 1..Len(entries) |->
                PhaseWarnings(taskRows, entries[e].key, entries[e].val,
                              CapacityOf(phaseCapacity, entries[e].key))])

EmptyScan == [phaseDemand |-> <<>>, failed |-> <<>>]

PhaseDemand(taskRows) == DemandScan(taskRows, 1, EmptyScan)
PhaseCapacity(workerRows) == CapacityScan(workerRows, 1, <<>>)

validatePhaseSlotSaturation(taskRows, workerRows) ==
  SaturationErrors(taskRows, PhaseDemand(taskRows), PhaseCapacity(workerRows),
                   ObjectEntries(PhaseDemand(taskRows).phaseDemand))

(***************************************************************************)
(* validateAllRows.  allData.present is FALSE when the third argument is   *)
(* omitted.                                                                *)
(***************************************************************************)
NoData == [present |-> FALSE, clients |-> <<>>, workers |-> <<>>, tasks |-> <<>>]
AllData(c, w, t) == [present |-> TRUE, clients |-> c, workers |-> w, tasks |-> t]

validateAllRows(rows, entityType, allData) ==
  FlatSeq([i \in 1..Len(rows) |-> validateRequiredFields(rows[i], entityType, i - 1)])
  \o validateDuplicateIds(rows, entityType)
  \o validateMalformedLists(rows, entityType)
  \o validateOutOfRangeValues(rows, entityType)
  \o validateBrokenJSON(rows, entityType)
  \o (IF allData.present
      THEN validateUnknownReferences(allData.clients, allData.tasks, allData.workers)
           \o validateSkillCoverage(allData.tasks, allData.workers)
           \o validatePhaseSlotSaturation(allData.tasks, allData.workers)
      ELSE <<>>)

(***************************************************************************)
(* The rows the validators are applied to.  BaseRow(entityType, k) is a    *)
(* valid row, the k-th of its collection; a collection holds one row that  *)
(* differs from its base row in at most two columns, each taken from the   *)
(* column's values below, and rows that differ from theirs in the          *)
(* identifier only.  The values cover every type a cell can hold (string,  *)
(* number, null, no key) and the shapes the validators distinguish.        *)
(***************************************************************************)
IdText(entityType, k) ==
  <<IF entityType = "clients" THEN "C" ELSE IF entityType = "workers" THEN "W" ELSE "T">>
  \o NatToStr(k)

BaseRow(entityType, k) ==
  CASE entityType = "clients" ->
         [ClientID |-> Str(IdText("clients", k)), ClientName |-> Str(<<"n">>),
          PriorityLevel |-> Num(3), RequestedTaskIDs |-> Str(<<"T", "1">>),
          GroupTag |-> Str(<<"g">>), AttributesJSON |-> Str(<<"{", "\"", "a", "\"", ":", "1", "}">>)]
    [] entityType = "workers" ->
         [WorkerID |-> Str(IdText("workers", k)), WorkerName |-> Str(<<"n">>),
          Skills |-> Str(<<"j", "s">>), AvailableSlots |-> Str(<<"[", "1", ",", "2", "]">>),
          MaxLoadPerPhase |-> Num(5), WorkerGroup |-> Str(<<"g">>),
          QualificationLevel |-> Num(2)]
    [] OTHER ->
         [TaskID |-> Str(IdText("tasks", k)), TaskName |-> Str(<<"n">>),
          Category |-> Str(<<"c">>), Duration |-> Num(2), RequiredSkills |-> Str(<<"j", "s">>),
          PreferredPhases |-> Str(<<"[", "1", "]">>), MaxConcurrent |-> Num(3)]

\* The JSON objects whose JSON.stringify text is an AttributesJSON value.
JsonObjects ==
  {JObj(<<>>, <<>>),
   JObj(<<<<"a">>>>, <<JNum(-5)>>),
   JObj(<<<<"a">>, <<"b">>>>, <<JStr(<<"x", " ", "y">>), JArr(<<JNum(1), JLit(<<"n", "u", "l", "l">>)>>)>>),
   JObj(<<<<"k">>>>, <<JObj(<<<<"a">>>>, <<JLit(<<"t", "r", "u", "e">>)>>)>>)}

AbsentValues == {Undef, Null, Str(<<>>)}

IdValues(entityType) ==
  AbsentValues \cup {Str(IdText(entityType, 1)), Num(7), Str(<<"7">>), Num(0)}

NumericValues ==
  AbsentValues \cup {Num(0), Num(1), Num(5), Num(6), Num(10), Num(11), Num(100), Num(101),
                     Num(-1), Str(<<"0">>), Str(<<"5">>), Str(<<"6">>), Str(<<" ", "4", " ">>),
                     Str(<<"a", "b", "c">>), Str(<<"3", "a">>)}

ListValues ==
  AbsentValues \cup {Str(<<"a", ",", ",", "b">>), Str(<<",", "a">>), Str(<<"a", ",">>),
                     Str(<<"a", ",", " ", "b">>), Num(5)}

AttributesValues ==
  AbsentValues \cup {Str(<<" ">>), Str(<<"{">>), Str(<<"a", "b", "c">>), Str(<<"[", "1", "]">>),
                     Str(<<" ", "{", "}", " ">>),
                     Str(<<"[", "1", ",">>), Str(<<"{", "a", ":", "1", "}">>), Num(5), Num(0)}
  \cup {Str(JSONStringify(v)) : v \in JsonObjects}

SlotValues == AbsentValues \cup {Str(<<"[", "1", ",">>), Str(<<"[", "]">>),
                                 Str(<<"1", "-", "3">>), Str(<<"2">>), Num(2)}

\* The values column `column` takes in the schema validators' inputs.
SchemaValues(entityType, column) ==
  CASE column = idFieldOf(entityType) -> IdValues(entityType)
    [] column \in {"PriorityLevel", "MaxLoadPerPhase", "Duration", "MaxConcurrent",
                   "QualificationLevel"} -> NumericValues
    [] column \in {"RequestedTaskIDs", "Skills", "RequiredSkills"} -> ListValues
    [] column = "AttributesJSON" -> AttributesValues
    [] column \in {"AvailableSlots", "PreferredPhases"} -> SlotValues
    [] OTHER -> AbsentValues \cup {Num(4)}

\* An absent and an invalid value of a column: for a numeric column the
\* invalid value is a number below its minimum.
CoreValues(entityType, column) ==
  IF column \in {"PriorityLevel", "MaxLoadPerPhase", "Duration", "MaxConcurrent",
                 "QualificationLevel"}
  THEN {Undef, Num(0)}
  ELSE {Undef, Str(<<>>)}

\* Row k with one column changed to any of the column's values, or with two
\* columns changed to an absent or invalid value each.
VariedRows(entityType, k) ==
  UNION {{[BaseRow(entityType, k) EXCEPT ![c] = v] : v \in SchemaValues(entityType, c)} :
           c \in Columns(entityType)}
  \cup UNION {{[BaseRow(entityType, k) EXCEPT ![c[1]] = v1, ![c[2]] = v2] :
                 v1 \in CoreValues(entityType, c[1]), v2 \in CoreValues(entityType, c[2])} :
                c \in {d \in Columns(entityType) \X Columns(entityType) : d[1] # d[2]}}
  \cup {BaseRow(entityType, k)}

\* Row k with its identifier kept, made a duplicate of row 1's or of 7, or emptied.
IdRows(entityType, k) ==
  {[BaseRow(entityType, k) EXCEPT ![idFieldOf(entityType)] = v] :
     v \in {Str(IdText(entityType, k)), Str(IdText(entityType, 1)), Num(7), Str(<<>>)}}

\* The collections of n rows in which row `rich` is varied and the others
\* differ from their base rows in the identifier only.
RECURSIVE RowSeqs(_, _, _)
RowSeqs(entityType, n, rich) ==
  IF n = 0 THEN {<<>>}
  ELSE {Append(rows, row) :
          rows \in RowSeqs(entityType, n - 1, rich),
          row \in (IF n = rich THEN VariedRows(entityType, n) ELSE IdRows(entityType, n))}

CollectionsOf(entityType) ==
  UNION {UNION {RowSeqs(entityType, n, rich) : rich \in 1..n} : n \in 1..MaxRows}

(***************************************************************************)
(* The cross-entity validators are applied to three loaded collections.    *)
(* Each family of inputs varies the columns one validator reads and leaves *)
(* the other columns at their base values.                                 *)
(***************************************************************************)
\* The collections of n rows in which one row takes its columns a and b from
\* a pair of `rich` and the others take theirs from a pair of `plain`.
PairSeqs(entityType, n, a, b, rich, plain) ==
  {[k \in 1..n |-> [BaseRow(entityType, k) EXCEPT ![a] = ps[k][1], ![b] = ps[k][2]]] :
     ps \in {qs \in [1..n -> rich \cup plain] :
               \E r \in 1..n : qs[r] \in rich /\ \A k \in 1..n \ {r} : qs[k] \in plain}}

UpTo(entityType, n, a, b, rich, plain) ==
  UNION {PairSeqs(entityType, m, a, b, rich, plain) : m \in 1..n}

RequestedValues ==
  {Undef, Null, Str(<<>>), Str(<<"T", "1">>), Str(<<"T", "1", ",", "T", "2">>),
   Str(<<" ", "T", "1", " ", ",", " ", "T", "9">>), Str(<<"T", "9", ",", "T", "9">>),
   Str(<<",", "T", "1", ",">>), Str(<<"n", "u", "l", "l">>),
   Str(<<"u", "n", "d", "e", "f", "i", "n", "e", "d">>),
   Str(<<"7">>), Num(7)}

TaskIdValues == {Str(<<"T", "1">>), Str(<<"T", "2">>), Undef, Null, Str(<<>>), Num(7)}

RequiredSkillsValues ==
  {Undef, Str(<<>>), Str(<<"j", "s">>), Str(<<"j", "s", ",", "p", "y", "t", "h", "o", "n">>),
   Str(<<"J", "S">>), Str(<<" ", "J", "s", " ", ",", " ", "P", "Y", "T", "H", "O", "N">>),
   Str(<<"g", "o", ",", "g", "o">>), Str(<<"j", "s", ",">>), Num(5), Num(0)}

SkillsValues == {Undef, Str(<<"j", "s">>),
                 Str(<<"J", "S", ",", " ", "P", "y", "t", "h", "o", "n">>),
                 Str(<<"p", "y", "t", "h", "o", "n">>), Str(<<"j", "s", ",">>), Num(5)}

\* Duration and PreferredPhases of a task row.
TaskPhaseValues ==
  ({Num(5), Str(<<"3">>)}
   \X {Str(<<"[", "1", "]">>), Str(<<"[", "2", "]">>),
       Str(<<"[", "1", ",", "2", ",", "3", "]">>), Str(<<"[", "1", "0", "]">>),
       Str(<<"1", "-", "3">>), Str(<<"2">>), Num(2), Str(<<"a", "b", "c">>),
       Str(<<"a", "-", "b">>), Str(<<"[", "1", ",">>), Undef})
  \cup ({Undef, Num(0), Str(<<"a", "b", "c">>)} \X {Str(<<"[", "1", "]">>)})

PlainTaskPhaseValues == {Num(2)} \X {Str(<<"[", "1", "]">>)}

\* AvailableSlots and MaxLoadPerPhase of a worker row.
WorkerSlotValues ==
  ({Str(<<"[", "1", "]">>), Str(<<"[", "2", "]">>), Str(<<"[", "1", ",", "2", ",", "3", "]">>),
    Str(<<"[", "1", "0", "]">>), Str(<<"1", "-", "3">>), Str(<<"2">>), Str(<<"[", "1", ",">>)}
   \X {Num(3)})
  \cup ({Str(<<"[", "1", "]">>), Str(<<"[", "1", ",", "2", ",", "3", "]">>), Str(<<"1", "-", "3">>)}
        \X {Num(5)})
  \cup ({Str(<<"[", "1", "]">>)} \X {Str(<<"5">>), Num(0), Undef})
  \cup ({Num(2), Undef} \X {Num(3)})

PlainWorkerSlotValues == {Str(<<"[", "1", ",", "2", "]">>)} \X {Num(5)}

RefInputs ==
  UpTo("clients", MaxRows, "RequestedTaskIDs", "GroupTag", RequestedValues \X {Str(<<"g">>)},
       {Str(<<"T", "1">>)} \X {Str(<<"g">>)})
  \X {<<BaseRow("workers", 1)>>}
  \X UpTo("tasks", MaxRows, "TaskID", "Category", TaskIdValues \X {Str(<<"c">>)},
          {Str(<<"T", "2">>)} \X {Str(<<"c">>)})

SkillInputs ==
  {<<BaseRow("clients", 1)>>}
  \X UpTo("workers", MaxRows, "Skills", "WorkerGroup", SkillsValues \X {Str(<<"g">>)},
          {Str(<<"j", "s">>)} \X {Str(<<"g">>)})
  \X UpTo("tasks", MaxRows, "RequiredSkills", "Category", RequiredSkillsValues \X {Str(<<"c">>)},
          {Str(<<"j", "s">>)} \X {Str(<<"c">>)})

PhaseInputs ==
  {<<BaseRow("clients", 1)>>}
  \X UpTo("workers", MaxRows, "AvailableSlots", "MaxLoadPerPhase", WorkerSlotValues,
          PlainWorkerSlotValues)
  \X UpTo("tasks", MaxRows, "Duration", "PreferredPhases", TaskPhaseValues,
          PlainTaskPhaseValues)

(***************************************************************************)
(* The state: the rows of the three collections, the validator that was    *)
(* applied last (its name, entity type and, for validateRequiredFields,    *)
(* row index) and the list it returned.                                    *)
(*                                                                         *)
(* The data store (src/src/store/dataStore.ts) adds to the rows of each    *)
(* collection its validationErrors, the deferred cross-entity validations  *)
(* that setTimeout has scheduled and not yet run (timers), and the lists   *)
(* of modification commands and error-correction batches.  The rules       *)
(* store (src/store/rulesStore.ts) holds the rule collection; clock is     *)
(* the time new Date() reads, and dataContext the identifiers a rule is    *)
(* checked against.                                                        *)
(***************************************************************************)
VARIABLES clients, workers, tasks, call, result,
          validationErrors, timers, modificationCommands, errorCorrectionBatches,
          rules, dataContext, clock

storeVars == <<validationErrors, timers, modificationCommands, errorCorrectionBatches>>
ruleVars == <<rules, dataContext, clock>>
vars == <<clients, workers, tasks, call, result, storeVars, ruleVars>>

\* The data context of a rule: the identifiers the loaded data offers.
DataContext(taskIds, workerGroups, clientGroups) ==
  [availableTaskIds |-> taskIds, availableWorkerGroups |-> workerGroups,
   availableClientGroups |-> clientGroups]

\* The stores as they are constructed: nothing validated, nothing scheduled,
\* no command, no batch, no rule.
NoErrors == [e \in EntityTypes |-> <<>>]
StoreCreated ==
  /\ validationErrors = NoErrors
  /\ timers = 0
  /\ modificationCommands = <<>>
  /\ errorCorrectionBatches = <<>>
RulesCreated ==
  /\ rules = <<>>
  /\ dataContext = DataContext(<<>>, <<>>, <<>>)
  /\ clock = 0

Rows(entityType) ==
  CASE entityType = "clients" -> clients
    [] entityType = "workers" -> workers
    [] OTHER -> tasks

Called(op, entityType, index) == [op |-> op, entityType |-> entityType, index |-> index]
NoCall == Called("none", "none", 0)

Populated == {e \in EntityTypes : Rows(e) # <<>>}

\* One collection has been loaded.
Init ==
  /\ \E e \in EntityTypes : \E rows \in CollectionsOf(e) :
       /\ clients = IF e = "clients" THEN rows ELSE <<>>
       /\ workers = IF e = "workers" THEN rows ELSE <<>>
       /\ tasks = IF e = "tasks" THEN rows ELSE <<>>
  /\ call = NoCall
  /\ result = <<>>
  /\ StoreCreated
  /\ RulesCreated

Returns(op, entityType, index, errors) ==
  /\ call' = Called(op, entityType, index)
  /\ result' = errors
  /\ UNCHANGED <<clients, workers, tasks, storeVars, ruleVars>>

RequiredFields ==
  \E e \in Populated : \E i \in 1..Len(Rows(e)) :
    Returns("validateRequiredFields", e, i - 1, validateRequiredFields(Rows(e)[i], e, i - 1))

DuplicateIds ==
  \E e \in Populated : Returns("validateDuplicateIds", e, 0, validateDuplicateIds(Rows(e), e))

MalformedLists ==
  \E e \in Populated :
    Returns("validateMalformedLists", e, 0, validateMalformedLists(Rows(e), e))

OutOfRangeValues ==
  \E e \in Populated :
    Returns("validateOutOfRangeValues", e, 0, validateOutOfRangeValues(Rows(e), e))

BrokenJSON ==
  \E e \in Populated : Returns("validateBrokenJSON", e, 0, validateBrokenJSON(Rows(e), e))

AllRows ==
  \E e \in Populated : Returns("validateAllRows", e, 0, validateAllRows(Rows(e), e, NoData))

Next ==
  \/ RequiredFields
  \/ DuplicateIds
  \/ MalformedLists
  \/ OutOfRangeValues
  \/ BrokenJSON
  \/ AllRows

Spec == Init /\ [][Next]_vars

(***************************************************************************)
(* The cross-entity validators, applied to three loaded collections.       *)
(***************************************************************************)
Loaded(inputs) ==
  /\ \E d \in inputs : clients = d[1] /\ workers = d[2] /\ tasks = d[3]
  /\ call = NoCall
  /\ result = <<>>
  /\ StoreCreated
  /\ RulesCreated

RefInit == Loaded(RefInputs)
SkillInit == Loaded(SkillInputs)
PhaseInit == Loaded(PhaseInputs)

\* allData, as the store passes it: the three collections as they stand.
UnknownReferences ==
  \E allData \in {AllData(clients, workers, tasks)} :
    Returns("validateUnknownReferences", "clients", 0,
            validateUnknownReferences(allData.clients, allData.tasks, allData.workers))

SkillCoverage ==
  \E allData \in {AllData(clients, workers, tasks)} :
    Returns("validateSkillCoverage", "tasks", 0,
            validateSkillCoverage(allData.tasks, allData.workers))

PhaseSlotSaturation ==
  \E allData \in {AllData(clients, workers, tasks)} :
    Returns("validatePhaseSlotSaturation", "tasks", 0,
            validatePhaseSlotSaturation(allData.tasks, allData.workers))

AllRowsAcross ==
  \E e \in Populated :
    Returns("validateAllRows", e, 0,
            validateAllRows(Rows(e), e, AllData(clients, workers, tasks)))

CrossNext ==
  \/ UnknownReferences
  \/ SkillCoverage
  \/ PhaseSlotSaturation
  \/ AllRowsAcross

RefSpec == RefInit /\ [][CrossNext]_vars
SkillSpec == SkillInit /\ [][CrossNext]_vars
PhaseSpec == PhaseInit /\ [][CrossNext]_vars

(***************************************************************************)
(* Reading a returned list.                                                *)
(***************************************************************************)
\* The positions in `errors` of the entries on row rowIndex and column column.
EntriesOn(errors, rowIndex, column) ==
  {k \in 1..Len(errors) : errors[k].rowIndex = rowIndex /\ errors[k].column = column}

\* The positions in `errors` of the entries on row rowIndex.
EntriesOnRow(errors, rowIndex) == {k \in 1..Len(errors) : errors[k].rowIndex = rowIndex}

SeveritiesOn(errors, rowIndex, column) ==
  {errors[k].severity : k \in EntriesOn(errors, rowIndex, column)}

\* The columns a schema requires: every field that is not optional.
RequiredColumns(entityType) ==
  {schemas[entityType][i].col :
     i \in {j \in 1..Len(schemas[entityType]) : schemas[entityType][j].kind # "optional"}}

\* The rows the last call was applied to.
CalledRows == Rows(call.entityType)

(***************************************************************************)
(* C1.  For every entity type and every row, whatever its other fields     *)
(* hold: for each required field of the schema that the row lacks,         *)
(* validateRequiredFields returns exactly one entry on that column, of     *)
(* severity 'error'; and so does validateAllRows for each of its rows.     *)
(* The code does not satisfy it: a numeric field below its minimum makes    *)
(* the schema's transform throw an Error that is no ZodError, and the      *)
(* catch block then reports nothing for the row.                           *)
(***************************************************************************)
C1_MissingRequiredFieldReportedOnce ==
  /\ call.op = "validateRequiredFields" =>
       \A f \in RequiredColumns(call.entityType) :
         CalledRows[call.index + 1][f] = Undef =>
           /\ Cardinality(EntriesOn(result, call.index, f)) = 1
           /\ SeveritiesOn(result, call.index, f) = {"error"}
  /\ call.op = "validateAllRows" =>
       \A i \in 1..Len(CalledRows) : \A f \in RequiredColumns(call.entityType) :
         CalledRows[i][f] = Undef =>
           /\ Cardinality(EntriesOn(result, i - 1, f)) = 1
           /\ SeveritiesOn(result, i - 1, f) = {"error"}

(***************************************************************************)
(* C2.  As claimed: validateDuplicateIds returns exactly one 'error' entry *)
(* (column the identifier field, message 'Duplicate ID: <value>') for each *)
(* row whose identifier value occurs in more than one row, and no entry    *)
(* for a row whose identifier value occurs once.  It fails for rows whose  *)
(* identifier is empty: the code never reports the empty identifier.       *)
(***************************************************************************)
\* The rows whose identifier cell holds the same value, written out, as row i's.
SameIdCell(rows, idField, i) ==
  {j \in 1..Len(rows) : ToStr(rows[j][idField]) = ToStr(rows[i][idField])}

SameId(rows, idField, i) ==
  {j \in 1..Len(rows) :
     ToStr(OrEmpty(rows[j][idField])) = ToStr(OrEmpty(rows[i][idField]))}

RangeOf(column) ==
  CASE column = "PriorityLevel" -> [min |-> 1, hasMax |-> TRUE, max |-> 5, severity |-> "error"]
    [] column = "Duration" -> [min |-> 1, hasMax |-> FALSE, max |-> 0, severity |-> "error"]
    [] column = "MaxLoadPerPhase" ->
         [min |-> 1, hasMax |-> TRUE, max |-> 10, severity |-> "warning"]
    [] OTHER -> [min |-> 1, hasMax |-> TRUE, max |-> 100, severity |-> "warning"]

RangedColumns(entityType) ==
  CASE entityType = "clients" -> {"PriorityLevel"}
    [] entityType = "workers" -> {"MaxLoadPerPhase"}
    [] OTHER -> {"Duration", "MaxConcurrent"}

\* The cell holds a number, or the text of one.
IsNumeric(v) == v.t = "num" \/ (v.t = "str" /\ Trim(v.s) # <<>> /\ ~NumberStr(v.s).nan)

OutsideRange(v, column) ==
  \/ ToNumber(v).v < RangeOf(column).min
  \/ RangeOf(column).hasMax /\ ToNumber(v).v > RangeOf(column).max

C3_RangeViolationReportedOnce ==
  call.op = "validateAllRows" =>
    \A i \in 1..Len(CalledRows) : \A column \in RangedColumns(call.entityType) :
      IsNumeric(CalledRows[i][column]) =>
        IF OutsideRange(CalledRows[i][column], column)
        THEN /\ Cardinality(EntriesOn(result, i - 1, column)) = 1
             /\ SeveritiesOn(result, i - 1, column) = {RangeOf(column).severity}
        ELSE EntriesOn(result, i - 1, column) = {}

\* validateAllRows has returned, for one otherwise valid client row of
\* PriorityLevel 6, the one error on PriorityLevel and nothing else.
C3_Witness ==
  /\ call.op = "validateAllRows"
  /\ clients = <<[BaseRow("clients", 1) EXCEPT !["PriorityLevel"] = Num(6)]>>
  /\ Len(result) = 1
  /\ result[1].column = "PriorityLevel"
  /\ result[1].severity = "error"

(***************************************************************************)
(* C4.  As claimed: for every client row validateBrokenJSON classifies a   *)
(* non-empty AttributesJSON by its trimmed value.  Starting with '{' or    *)
(* '[', it yields one 'error' exactly when the value fails to parse as     *)
(* JSON and no entry when it parses; otherwise it yields exactly one       *)
(* 'warning'.  For workers and tasks it yields nothing.  It fails for a    *)
(* value of white space only, which is not empty, does not start with '{'  *)
(* or '[', and yields no entry.                                            *)
(***************************************************************************)
\* The entries row i's AttributesJSON is to yield, by the classification.
JSONClass(v) ==
  LET value == Trim(ToStr(v))
  IN IF StartsWith(value, <<"{">>) \/ StartsWith(value, <<"[">>)
     THEN IF JSONParse(value).ok THEN {} ELSE {"error"}
     ELSE {"warning"}

C4_NonEmptyAttributesClassified ==
  call.op = "validateBrokenJSON" =>
    IF call.entityType = "clients"
    THEN \A i \in 1..Len(CalledRows) :
           Truthy(CalledRows[i]["AttributesJSON"]) =>
             /\ Cardinality(EntriesOnRow(result, i - 1))
                  = Cardinality(JSONClass(CalledRows[i]["AttributesJSON"]))
             /\ SeveritiesOn(result, i - 1, "AttributesJSON")
                  = JSONClass(CalledRows[i]["AttributesJSON"])
    ELSE result = <<>>

(***************************************************************************)
(* C4 as amended.  The classification applies to an AttributesJSON that is *)
(* non-empty after trimming; a value that is empty, or empty once trimmed, *)
(* yields no entry.  A client row whose AttributesJSON is the              *)
(* JSON.stringify text of a JSON object yields no entry.  For workers and  *)
(* tasks validateBrokenJSON yields nothing.                                *)
(***************************************************************************)
C4_TrimmedAttributesClassified ==
  call.op = "validateBrokenJSON" =>
    IF call.entityType = "clients"
    THEN \A i \in 1..Len(CalledRows) :
           /\ IF /\ Truthy(CalledRows[i]["AttributesJSON"])
                 /\ Trim(ToStr(CalledRows[i]["AttributesJSON"])) # <<>>
              THEN /\ Cardinality(EntriesOnRow(result, i - 1))
                        = Cardinality(JSONClass(CalledRows[i]["AttributesJSON"]))
                   /\ SeveritiesOn(result, i - 1, "AttributesJSON")
                        = JSONClass(CalledRows[i]["AttributesJSON"])
              ELSE EntriesOnRow(result, i - 1) = {}
           /\ (\E v \in JsonObjects : CalledRows[i]["AttributesJSON"] = Str(JSONStringify(v)))
                => EntriesOnRow(result, i - 1) = {}
    ELSE result = <<>>

\* validateBrokenJSON has passed a row holding the text of a nested JSON
\* object and reported the other row, whose value does not parse.
C4_Witness ==
  /\ call.op = "validateBrokenJSON"
  /\ call.entityType = "clients"
  /\ Len(clients) = 2
  /\ \E i \in 1..2 :
       /\ clients[i]["AttributesJSON"] = Str(JSONStringify(JObj(<<<<"a">>>>, <<JNum(1)>>)))
       /\ EntriesOnRow(result, i - 1) = {}
       /\ clients[3 - i]["AttributesJSON"] = Str(<<"[", "1", ",">>)
       /\ SeveritiesOn(result, 2 - i, "AttributesJSON") = {"error"}

(***************************************************************************)
(* C5.  validateUnknownReferences returns an 'error' on client row i       *)
(* (column RequestedTaskIDs, message naming id t) if and only if t is a    *)
(* non-empty, trimmed, comma-separated element of row i's RequestedTaskIDs *)
(* and no task row has TaskID equal to t; a task row with a missing or     *)
(* null TaskID makes no requested id valid.  The code does not satisfy it: *)
(* String(task.TaskID) turns a missing TaskID into 'undefined' and a null  *)
(* one into 'null', and a requested id so spelt is then taken as known.    *)
(***************************************************************************)
\* The non-empty trimmed elements of a RequestedTaskIDs cell.
RequestedElements(v) ==
  IF v.t \in {"undef", "null"} THEN {}
  ELSE {Trim(Split(ToStr(v), ",")[k]) : k \in 1..Len(Split(ToStr(v), ","))} \ {<<>>}

\* A TaskID cell holding the id t, as text or as a number.
HoldsId(v, t) == (v.t = "str" /\ v.s = t) \/ (v.t = "num" /\ NumToStr(Fin(v.n)) = t)

NamedOnRow(errors, rowIndex) == {errors[k].error.args[1] : k \in EntriesOnRow(errors, rowIndex)}

C5_UnknownReferenceReported ==
  call.op = "validateUnknownReferences" =>
    \A i \in 1..Len(clients) :
      \A t \in RequestedElements(clients[i]["RequestedTaskIDs"]) \cup NamedOnRow(result, i - 1) :
        (\E k \in EntriesOn(result, i - 1, "RequestedTaskIDs") :
           result[k].severity = "error" /\ result[k].error.args = <<t>>)
        <=> /\ t \in RequestedElements(clients[i]["RequestedTaskIDs"])
            /\ ~\E j \in 1..Len(tasks) : HoldsId(tasks[j]["TaskID"], t)

(***************************************************************************)
(* C6.  validateSkillCoverage returns at most one entry per task row.  The *)
(* skills of a RequiredSkills or Skills cell are its comma-separated       *)
(* elements, trimmed and lower-cased; a cell that is missing or empty      *)
(* (JavaScript-falsy) holds none.  Task row i has a 'warning' on           *)
(* RequiredSkills if and only if one of its skills is a skill of no        *)
(* worker, and the message then lists exactly its uncovered skills, in     *)
(* the order of the cell.  Workers 'js' against 'js,python' gives the one  *)
(* warning naming 'python'; 'JS' is covered by 'js'.                       *)
(***************************************************************************)
SkillList(v) ==
  IF Truthy(v)
  THEN [k \in 1..Len(Split(ToStr(v), ",")) |-> ToLowerCase(Trim(Split(ToStr(v), ",")[k]))]
  ELSE <<>>

SkillSet(v) == {SkillList(v)[k] : k \in 1..Len(SkillList(v))}

WorkerSkillSet == UNION {SkillSet(workers[w]["Skills"]) : w \in 1..Len(workers)}

RECURSIVE Uncovered(_)
Uncovered(skills) ==
  IF skills = <<>> THEN <<>>
  ELSE (IF Head(skills) \in WorkerSkillSet THEN <<>> ELSE <<Head(skills)>>)
       \o Uncovered(Tail(skills))

IsIntText(s) == s # <<>> /\ DigitsPrefix(s) = s

IsNumberArray(s) ==
  /\ IsArray(JSONParse(s))
  /\ \A k \in 1..Len(JSONParse(s).val.items) : JSONParse(s).val.items[k].k = "num"

IsRange(s) ==
  /\ Len(Split(s, "-")) = 2
  /\ IsIntText(Trim(Split(s, "-")[1]))
  /\ IsIntText(Trim(Split(s, "-")[2]))

WellFormed(v) ==
  Truthy(v) /\ (IsNumberArray(ToStr(v)) \/ IsRange(ToStr(v)) \/ IsIntText(Trim(ToStr(v))))

Malformed(v) == Truthy(v) /\ ~WellFormed(v)

PhasesOf(v) ==
  IF ~WellFormed(v) THEN {}
  ELSE IF IsNumberArray(ToStr(v))
       THEN {JSONParse(ToStr(v)).val.items[k].n : k \in 1..Len(JSONParse(ToStr(v)).val.items)}
  ELSE IF IsRange(ToStr(v))
       THEN DigitsVal(Trim(Split(ToStr(v), "-")[1]))..DigitsVal(Trim(Split(ToStr(v), "-")[2]))
  ELSE {DigitsVal(Trim(ToStr(v)))}

\* The number a Duration or MaxLoadPerPhase cell holds; 0 when it holds none.
Amount(v) == IF IsNumeric(v) THEN ToNumber(v).v ELSE 0

\* The sum of `amount` over the rows whose `phases` cell denotes phase p.
RECURSIVE Total(_, _, _, _)
Total(rows, amount, phases, p) ==
  IF rows = <<>> THEN 0
  ELSE (IF p \in PhasesOf(Head(rows)[phases]) THEN Amount(Head(rows)[amount]) ELSE 0)
       + Total(Tail(rows), amount, phases, p)

Demand(p) == Total(tasks, "Duration", "PreferredPhases", p)
Capacity(p) == Total(workers, "MaxLoadPerPhase", "AvailableSlots", p)

AllPhases ==
  UNION {PhasesOf(tasks[i]["PreferredPhases"]) : i \in 1..Len(tasks)}
  \cup UNION {PhasesOf(workers[w]["AvailableSlots"]) : w \in 1..Len(workers)}

\* Every encoding is well-formed or absent, every amount a number or absent.
Readable(rows, amount, phases) ==
  \A i \in 1..Len(rows) :
    /\ ~Truthy(rows[i][phases]) \/ WellFormed(rows[i][phases])
    /\ ~Truthy(rows[i][amount]) \/ (IsNumeric(rows[i][amount]) /\ Amount(rows[i][amount]) > 0)

ReadableInputs ==
  /\ Readable(tasks, "Duration", "PreferredPhases")
  /\ Readable(workers, "MaxLoadPerPhase", "AvailableSlots")

SaturationWarning(p) == <<NatToStr(p), NatToStr(Demand(p)), NatToStr(Capacity(p))>>

WarningsOf(errors) ==
  {[rowIndex |-> errors[k].rowIndex, args |-> errors[k].error.args] :
     k \in {j \in 1..Len(errors) : errors[j].severity = "warning"}}

(***************************************************************************)
(* C7.  With every encoding well-formed, validatePhaseSlotSaturation emits *)
(* a saturation warning for a phase exactly when the phase's total demand  *)
(* (the sum of Duration of the tasks preferring it) is strictly greater    *)
(* than its total capacity (the sum of MaxLoadPerPhase of the workers      *)
(* available in it), and every warning cites a phase and its two totals.   *)
(* The code does not satisfy it, for the reasons of C8 and C9: a phase     *)
(* inside a task's range gets no warning, and a worker's range or single   *)
(* number adds no capacity.                                                *)
(***************************************************************************)
C7_WarningIffDemandExceedsCapacity ==
  (call.op = "validatePhaseSlotSaturation" /\ ReadableInputs) =>
    /\ \A p \in AllPhases :
         (\E w \in WarningsOf(result) : w.args[1] = NatToStr(p)) <=> Demand(p) > Capacity(p)
    /\ \A w \in WarningsOf(result) : \E p \in AllPhases : w.args = SaturationWarning(p)

(***************************************************************************)
(* C8.  With every encoding well-formed and every AvailableSlots a JSON    *)
(* array: for every phase whose demand exceeds its capacity, every task    *)
(* row that contributed Duration to the phase's demand has a 'warning' on  *)
(* PreferredPhases naming the phase and both totals, whichever encoding    *)
(* its PreferredPhases uses.  The code does not satisfy it: the rows to    *)
(* warn are found by phasesStr.includes(phase), and the text '1-3' does    *)
(* not include '2'.                                                        *)
(***************************************************************************)
ArraySlots ==
  \A w \in 1..Len(workers) :
    Truthy(workers[w]["AvailableSlots"]) => IsNumberArray(ToStr(workers[w]["AvailableSlots"]))

C8_EveryContributorWarned ==
  (call.op = "validatePhaseSlotSaturation" /\ ReadableInputs /\ ArraySlots) =>
    \A p \in AllPhases : Demand(p) > Capacity(p) =>
      \A i \in 1..Len(tasks) :
        (p \in PhasesOf(tasks[i]["PreferredPhases"]) /\ Amount(tasks[i]["Duration"]) > 0) =>
          \E k \in EntriesOn(result, i - 1, "PreferredPhases") :
            result[k].severity = "warning" /\ result[k].error.args = SaturationWarning(p)

(***************************************************************************)
(* C9.  The three encodings of one phase set read alike: with every        *)
(* well-formed range or single number rewritten as the JSON array of the   *)
(* same phases, the capacity and the demand of every phase and the         *)
(* warnings returned are the same as for the rows as written.  The code    *)
(* does not satisfy it: AvailableSlots is read only when it contains '[',  *)
(* so '1-3' and '2' add no capacity where '[1,2,3]' and '[2]' do.          *)
(***************************************************************************)
ArrayText(first, last) ==
  <<"[">> \o Join([k \in 1..(last - first + 1) |-> NatToStr(first + k - 1)], <<",">>) \o <<"]">>

AsArray(v) ==
  IF WellFormed(v) /\ ~IsNumberArray(ToStr(v))
  THEN IF IsRange(ToStr(v))
       THEN Str(ArrayText(DigitsVal(Trim(Split(ToStr(v), "-")[1])),
                          DigitsVal(Trim(Split(ToStr(v), "-")[2]))))
       ELSE Str(ArrayText(DigitsVal(Trim(ToStr(v))), DigitsVal(Trim(ToStr(v)))))
  ELSE v

Rewritten(rows, phases) == [i \in 1..Len(rows) |-> [rows[i] EXCEPT ![phases] = AsArray(@)]]

C9_EncodingsReadAlike ==
  call.op = "validatePhaseSlotSaturation" =>
    /\ \A p \in AllPhases :
         /\ CapacityOf(PhaseCapacity(workers), NatToStr(p))
              = CapacityOf(PhaseCapacity(Rewritten(workers, "AvailableSlots")), NatToStr(p))
         /\ LookupOr0(PhaseDemand(tasks).phaseDemand, NatToStr(p))
              = LookupOr0(PhaseDemand(Rewritten(tasks, "PreferredPhases")).phaseDemand,
                          NatToStr(p))
    /\ WarningsOf(result)
         = WarningsOf(validatePhaseSlotSaturation(Rewritten(tasks, "PreferredPhases"),
                                                  Rewritten(workers, "AvailableSlots")))

(***************************************************************************)
(* C10.  For every task row with a non-empty Duration whose                *)
(* PreferredPhases is not well-formed (such as 'abc', 'a-b' or '[1,'),     *)
(* validatePhaseSlotSaturation returns an 'error' on that row with column  *)
(* PreferredPhases, and the row adds nothing to any phase's demand: the    *)
(* demand is what it is without the row.  The code does not satisfy it:    *)
(* only a text containing '[' that JSON.parse rejects is reported; 'abc'   *)
(* is read by parseInt as the phase NaN and 'a-b' as an empty range.       *)
(***************************************************************************)
Without(rows, i) == [k \in 1..(Len(rows) - 1) |-> IF k < i THEN rows[k] ELSE rows[k + 1]]

C10_MalformedPhasesRejected ==
  call.op = "validatePhaseSlotSaturation" =>
    \A i \in 1..Len(tasks) :
      (Truthy(tasks[i]["Duration"]) /\ Malformed(tasks[i]["PreferredPhases"])) =>
        /\ \E k \in EntriesOn(result, i - 1, "PreferredPhases") : result[k].severity = "error"
        /\ PhaseDemand(tasks).phaseDemand = PhaseDemand(Without(tasks, i)).phaseDemand

(***************************************************************************)
(* Rules (src/src/types/index.ts) and their validation                     *)
(* (src/utils/ruleValidation.ts).                                          *)
(*                                                                         *)
(* A rule carries the fields of BaseRule and one config record holding     *)
(* the configuration fields of all six variants.  A field that may be      *)
(* missing from the object is a sequence of at most one value: None when   *)
(* the property is undefined, Some(v) when it holds v.  Strings are        *)
(* character sequences, as for cell values.  A message is its fixed text   *)
(* and the sequence of texts interpolated into it.                         *)
(***************************************************************************)
MaxRules == 3

None == <<>>
Some(v) == <<v>>
Has(o) == o # <<>>

RuleTypes ==
  {"co-run", "slot-restriction", "load-limit", "phase-window", "pattern-match",
   "precedence-override"}

NoConfig ==
  [taskIds |-> <<>>, mustRunTogether |-> None,
   workerGroup |-> None, clientGroup |-> None,
   minCommonSlots |-> None, maxCommonSlots |-> None, phases |-> None,
   maxSlotsPerPhase |-> None,
   taskId |-> None, allowedPhases |-> <<>>, restrictedPhases |-> None,
   timeWindow |-> None,
   field |-> None, pattern |-> None, action |-> None, entityType |-> None,
   message |-> None,
   higherPriorityItems |-> <<>>, lowerPriorityItems |-> <<>>]

Rule(id, name, description, type, priority, config) ==
  [id |-> id, name |-> name, description |-> description, type |-> type,
   enabled |-> TRUE, priority |-> priority, createdAt |-> 0, updatedAt |-> 0,
   source |-> "manual", config |-> config]

Message(msg, args) == [msg |-> msg, args |-> args]

RuleValidationResult_NoWarnings(errors, warnings, suggestions) ==
  [isValid |-> errors = <<>> /\ warnings = <<>>, errors |-> errors, warnings |-> warnings,
   suggestions |-> suggestions]

\* `result.isValid = result.errors.length === 0; return result`
RuleValidationResult(errors, warnings, suggestions) ==
  [isValid |-> errors = <<>>, errors |-> errors, warnings |-> warnings,
   suggestions |-> suggestions]

\* What one validator of a variant pushes on the result it is handed.
Pushed(errors, warnings, suggestions) ==
  [errors |-> errors, warnings |-> warnings, suggestions |-> suggestions]

\* `if (c) list.push(m)`
PushIf(c, msg) == IF c THEN <<Message(msg, <<>>)>> ELSE <<>>

\* `!s?.trim()` for an optional string.
BlankText(o) == ~Has(o) \/ Trim(o[1]) = <<>>
\* `!s` for an optional string.
FalsyText(o) == ~Has(o) \/ o[1] = <<>>
\* a < b and a <= b for optional numbers: false when either side is undefined.
LessThan(a, b) == Has(a) /\ Has(b) /\ a[1] < b[1]
AtMost(a, b) == Has(a) /\ Has(b) /\ a[1] <= b[1]
\* new Set(a).size !== a.length
HasRepeats(a) == Cardinality({a[i] : i \in 1..Len(a)}) # Len(a)
\* a.includes(x)
ArrayIncludes(a, x) == \E i \in 1..Len(a) : a[i] = x
\* a.filter(x => b.includes(x))
RECURSIVE Common(_, _)
Common(a, b) ==
  IF a = <<>> THEN <<>>
  ELSE (IF ArrayIncludes(b, Head(a)) THEN <<Head(a)>> ELSE <<>>) \o Common(Tail(a), b)
\* a.filter(x => !b.includes(x))
RECURSIVE Missing(_, _)
Missing(a, b) ==
  IF a = <<>> THEN <<>>
  ELSE (IF ArrayIncludes(b, Head(a)) THEN <<>> ELSE <<Head(a)>>) \o Missing(Tail(a), b)

\* A variant that rejects a rule with more than 10 task ids.
validateCoRunRule_ManyRejected(config) ==
  Pushed(
    PushIf(Len(config.taskIds) < 2, "Co-run rules require at least 2 task IDs")
    \o PushIf(\E i \in 1..Len(config.taskIds) : Trim(config.taskIds[i]) = <<>>,
              "All task IDs must be non-empty")
    \o PushIf(HasRepeats(config.taskIds), "Task IDs must be unique")
    \o PushIf(Len(config.taskIds) > 10, "Co-run rules with many tasks may impact performance"),
    <<>>,
    <<>>)

validateCoRunRule(config) ==
  Pushed(
    PushIf(Len(config.taskIds) < 2, "Co-run rules require at least 2 task IDs")
    \o PushIf(\E i \in 1..Len(config.taskIds) : Trim(config.taskIds[i]) = <<>>,
              "All task IDs must be non-empty")
    \o PushIf(HasRepeats(config.taskIds), "Task IDs must be unique"),
    PushIf(Len(config.taskIds) > 10, "Co-run rules with many tasks may impact performance"),
    <<>>)

validateSlotRestrictionRule(config) ==
  Pushed(
    PushIf(FalsyText(config.workerGroup) /\ FalsyText(config.clientGroup),
           "Either worker group or client group must be specified")
    \o PushIf(LessThan(config.minCommonSlots, Some(0)),
              "Minimum common slots must be non-negative")
    \o PushIf(LessThan(config.maxCommonSlots, config.minCommonSlots),
              "Maximum common slots must be greater than or equal to minimum"),
    PushIf(Has(config.phases) /\ config.phases = Some(<<>>),
           "Empty phases array will have no effect")
    \o PushIf(LessThan(Some(24), config.minCommonSlots),
              "Very high slot requirements may be difficult to satisfy"),
    <<>>)

validateLoadLimitRule(config) ==
  Pushed(
    PushIf(BlankText(config.workerGroup), "Worker group is required for load limit rules")
    \o PushIf(AtMost(config.maxSlotsPerPhase, Some(0)),
              "Maximum slots per phase must be positive"),
    PushIf(LessThan(Some(100), config.maxSlotsPerPhase),
           "Very high slot limits may not be practical")
    \o PushIf(Has(config.phases) /\ config.phases = Some(<<>>),
              "Empty phases array will apply to all phases"),
    <<>>)

\* timeWindow holds what getTime() reads from new Date(start) and
\* new Date(end): a time, or NaN for a text that is no date.
validatePhaseWindowRule(config) ==
  Pushed(
    PushIf(BlankText(config.taskId), "Task ID is required for phase window rules")
    \o PushIf(config.allowedPhases = <<>>, "At least one allowed phase must be specified")
    \o PushIf(/\ Has(config.restrictedPhases)
              /\ Common(config.allowedPhases, config.restrictedPhases[1]) # <<>>,
              "Allowed and restricted phases cannot overlap")
    \o (IF Has(config.timeWindow)
        THEN PushIf(config.timeWindow[1].start.nan, "Invalid start time format")
             \o PushIf(config.timeWindow[1].end.nan, "Invalid end time format")
             \o PushIf(/\ ~config.timeWindow[1].start.nan
                       /\ ~config.timeWindow[1].end.nan
                       /\ config.timeWindow[1].start.v >= config.timeWindow[1].end.v,
                       "Start time must be before end time")
        ELSE <<>>),
    <<>>,
    <<>>)

\* The nesting depth of the groups of a pattern after each character; -1
\* once a group is closed that was never opened.
RECURSIVE GroupDepth(_, _)
GroupDepth(p, depth) ==
  IF p = <<>> \/ depth < 0 THEN depth
  ELSE GroupDepth(Tail(p), CASE Head(p) = "(" -> depth + 1
                             [] Head(p) = ")" -> depth - 1
                             [] OTHER -> depth)

\* new RegExp(pattern) does not throw: over patterns of letters, groups and
\* the quantifiers * and +, every group is closed and no quantifier lacks
\* an operand.
isValidRegex(pattern) ==
  /\ GroupDepth(pattern, 0) = 0
  /\ \A i \in 1..Len(pattern) :
       pattern[i] \in {"*", "+"} => i > 1 /\ pattern[i - 1] \notin {"(", "*", "+"}

EntityNames == {<<"c", "l", "i", "e", "n", "t", "s">>, <<"w", "o", "r", "k", "e", "r", "s">>,
                <<"t", "a", "s", "k", "s">>}
ActionNames == {<<"a", "l", "l", "o", "w">>, <<"d", "e", "n", "y">>, <<"f", "l", "a", "g">>}

validatePatternMatchRule(config) ==
  Pushed(
    PushIf(BlankText(config.field), "Field name is required for pattern match rules")
    \o (IF BlankText(config.pattern)
        THEN PushIf(TRUE, "Pattern is required for pattern match rules")
        ELSE PushIf(~isValidRegex(config.pattern[1]), "Invalid regular expression pattern"))
    \o PushIf(~(Has(config.action) /\ config.action[1] \in ActionNames),
              "Action must be one of: allow, deny, flag")
    \o PushIf(~(Has(config.entityType) /\ config.entityType[1] \in EntityNames),
              "Entity type must be one of: clients, workers, tasks"),
    PushIf(~FalsyText(config.pattern) /\ Len(config.pattern[1]) > 200,
           "Complex regex patterns may impact performance"),
    PushIf(config.action = Some(<<"f", "l", "a", "g">>) /\ FalsyText(config.message),
           "Consider adding a message for flag actions to improve clarity"))

validatePrecedenceOverrideRule(config) ==
  Pushed(
    PushIf(config.higherPriorityItems = <<>> /\ config.lowerPriorityItems = <<>>,
           "Either higher or lower priority items must be specified")
    \o PushIf(Common(config.higherPriorityItems, config.lowerPriorityItems) # <<>>,
              "Items cannot be in both higher and lower priority lists")
    \o PushIf(~(Has(config.entityType) /\ config.entityType[1] \in EntityNames),
              "Entity type must be one of: clients, workers, tasks")
    \o PushIf(\E item \in {config.higherPriorityItems[i] :
                             i \in 1..Len(config.higherPriorityItems)}
                          \cup {config.lowerPriorityItems[i] :
                                  i \in 1..Len(config.lowerPriorityItems)} :
                Trim(item) = <<>>,
              "All item IDs must be non-empty")
    \o PushIf(HasRepeats(config.higherPriorityItems), "Higher priority items must be unique")
    \o PushIf(HasRepeats(config.lowerPriorityItems), "Lower priority items must be unique"),
    <<>>,
    <<>>)

\* The switch of validateRule.
validateVariant(rule) ==
  CASE rule.type = "co-run" -> validateCoRunRule(rule.config)
    [] rule.type = "slot-restriction" -> validateSlotRestrictionRule(rule.config)
    [] rule.type = "load-limit" -> validateLoadLimitRule(rule.config)
    [] rule.type = "phase-window" -> validatePhaseWindowRule(rule.config)
    [] rule.type = "pattern-match" -> validatePatternMatchRule(rule.config)
    [] rule.type = "precedence-override" -> validatePrecedenceOverrideRule(rule.config)
    [] OTHER -> Pushed(PushIf(TRUE, "Unknown rule type"), <<>>, <<>>)

BuildResult(base, variant) ==
  RuleValidationResult(base.errors \o variant.errors, base.warnings \o variant.warnings,
                       base.suggestions \o variant.suggestions)

validateRule(rule) ==
  BuildResult(
    Pushed(PushIf(Trim(rule.name) = <<>>, "Rule name is required")
           \o PushIf(rule.priority < 0 \/ rule.priority > 100,
                     "Rule priority must be between 0 and 100"),
           PushIf(Trim(rule.description) = <<>>,
                  "Rule description is recommended for clarity"),
           <<>>),
    validateVariant(rule))

(***************************************************************************)
(* validateRuleConflicts: duplicate names, conflicting co-run rules and    *)
(* redundant load-limit rules of a rule collection.                        *)
(***************************************************************************)
NormalisedName_CaseSensitive(rule) == Trim(rule.name)

\* rule.name.toLowerCase().trim()
NormalisedName(rule) == Trim(ToLowerCase(rule.name))

\* nameMap.get(name): the index nameMap holds for the name, -1 for none.
NameIndex(nameMap, name) ==
  IF \E k \in 1..Len(nameMap) : nameMap[k].name = name
  THEN (CHOOSE e \in {nameMap[k] : k \in 1..Len(nameMap)} : e.name = name).index
  ELSE -1

\* The forEach over the rules from index on, with the nameMap built so far.
RECURSIVE NameScan(_, _, _)
NameScan(rules_, index, nameMap) ==
  IF index >= Len(rules_) THEN <<>>
  ELSE IF NameIndex(nameMap, NormalisedName(rules_[index + 1])) >= 0
  THEN <<Message("Duplicate rule name",
                 <<rules_[index + 1].name,
                   NatToStr(NameIndex(nameMap, NormalisedName(rules_[index + 1])) + 1),
                   NatToStr(index + 1)>>)>>
       \o NameScan(rules_, index + 1, nameMap)
  ELSE NameScan(rules_, index + 1,
                Append(nameMap, [name |-> NormalisedName(rules_[index + 1]),
                                 index |-> index]))

\* rules.filter(r => r.type === type)
RECURSIVE OfType(_, _)
OfType(rules_, type) ==
  IF rules_ = <<>> THEN <<>>
  ELSE (IF Head(rules_).type = type THEN <<Head(rules_)>> ELSE <<>>)
       \o OfType(Tail(rules_), type)

CoRunConflict_AnyPolarity(rule1, rule2) ==
  IF Common(rule1.config.taskIds, rule2.config.taskIds) # <<>>
  THEN <<Message("Conflicting co-run rules for tasks",
                 <<Join(Common(rule1.config.taskIds, rule2.config.taskIds), <<",", " ">>),
                   rule1.name, rule2.name>>)>>
  ELSE <<>>

\* The body of the two nested loops for the pair (rule1, rule2).
CoRunConflict(rule1, rule2) ==
  IF /\ Common(rule1.config.taskIds, rule2.config.taskIds) # <<>>
     /\ rule1.config.mustRunTogether # rule2.config.mustRunTogether
  THEN <<Message("Conflicting co-run rules for tasks",
                 <<Join(Common(rule1.config.taskIds, rule2.config.taskIds), <<",", " ">>),
                   rule1.name, rule2.name>>)>>
  ELSE <<>>

\* for (j = from; j < coRunRules.length; j++) for a fixed i
RECURSIVE InnerScan(_, _, _)
InnerScan(coRunRules, i, j) ==
  IF j > Len(coRunRules) THEN <<>>
  ELSE CoRunConflict(coRunRules[i], coRunRules[j]) \o InnerScan(coRunRules, i, j + 1)

\* for (i = 0; ...) for (j = i + 1; ...)
RECURSIVE CoRunScan(_, _)
CoRunScan(coRunRules, i) ==
  IF i > Len(coRunRules) THEN <<>>
  ELSE InnerScan(coRunRules, i, i + 1) \o CoRunScan(coRunRules, i + 1)

\* String(group) of a Map key: the text, or "undefined".
GroupText(group) ==
  IF Has(group) THEN group[1] ELSE <<"u", "n", "d", "e", "f", "i", "n", "e", "d">>

\* The keys of loadLimitsByGroup in insertion order: each worker group at
\* the place of its first rule.
RECURSIVE GroupKeys(_, _)
GroupKeys(loadLimitRules, seen) ==
  IF loadLimitRules = <<>> THEN <<>>
  ELSE IF Head(loadLimitRules).config.workerGroup \in seen
  THEN GroupKeys(Tail(loadLimitRules), seen)
  ELSE <<Head(loadLimitRules).config.workerGroup>>
       \o GroupKeys(Tail(loadLimitRules),
                    seen \cup {Head(loadLimitRules).config.workerGroup})

\* loadLimitsByGroup.get(group)
RECURSIVE GroupRules(_, _)
GroupRules(loadLimitRules, group) ==
  IF loadLimitRules = <<>> THEN <<>>
  ELSE (IF Head(loadLimitRules).config.workerGroup = group
        THEN <<Head(loadLimitRules)>> ELSE <<>>)
       \o GroupRules(Tail(loadLimitRules), group)

RuleNames(rules_) == [i \in 1..Len(rules_) |-> rules_[i].name]

LoadLimitWarning_Always(group, groupRules) ==
  <<Message("Multiple load limit rules for worker group",
            <<GroupText(group), Join(RuleNames(groupRules), <<",", " ">>)>>)>>

\* The body of the forEach over loadLimitsByGroup.
LoadLimitWarning(group, groupRules) ==
  IF Len(groupRules) > 1
  THEN <<Message("Multiple load limit rules for worker group",
                 <<GroupText(group), Join(RuleNames(groupRules), <<",", " ">>)>>)>>
  ELSE <<>>

RECURSIVE LoadLimitScan(_, _)
LoadLimitScan(loadLimitRules, groups) ==
  IF groups = <<>> THEN <<>>
  ELSE LoadLimitWarning(Head(groups), GroupRules(loadLimitRules, Head(groups)))
       \o LoadLimitScan(loadLimitRules, Tail(groups))

validateRuleConflicts(rules_) ==
  RuleValidationResult(
    CoRunScan(OfType(rules_, "co-run"), 1),
    NameScan(rules_, 0, <<>>)
    \o LoadLimitScan(OfType(rules_, "load-limit"),
                     GroupKeys(OfType(rules_, "load-limit"), {})),
    <<>>)

(***************************************************************************)
(* validateRuleAgainstData: the identifiers a rule refers to, looked up    *)
(* in the data context.                                                    *)
(***************************************************************************)
\* available.includes(o) for an optional string.
Available(available, o) == Has(o) /\ ArrayIncludes(available, o[1])

\* `if (invalid.length > 0) warnings.push(`${msg}: ${invalid.join(', ')}`)`
WarnMissing(msg, invalid) ==
  IF invalid # <<>> THEN <<Message(msg, <<Join(invalid, <<",", " ">>)>>)>> ELSE <<>>

\* entityIds of a precedence-override rule.
EntityIds(config, context) ==
  IF config.entityType = Some(<<"c", "l", "i", "e", "n", "t", "s">>)
  THEN context.availableClientGroups
  ELSE IF config.entityType = Some(<<"w", "o", "r", "k", "e", "r", "s">>)
  THEN context.availableWorkerGroups
  ELSE context.availableTaskIds

DataWarnings_TaskIdsOnly(rule, context) ==
  CASE rule.type = "co-run" ->
         WarnMissing("Task IDs not found in data",
                     Missing(rule.config.taskIds, context.availableTaskIds))
    [] rule.type = "phase-window" ->
         IF ~Available(context.availableTaskIds, rule.config.taskId)
         THEN <<Message("Task ID not found in data", <<GroupText(rule.config.taskId)>>)>>
         ELSE <<>>
    [] OTHER -> <<>>

\* The switch of validateRuleAgainstData: the warnings it pushes.
DataWarnings(rule, context) ==
  CASE rule.type = "co-run" ->
         WarnMissing("Task IDs not found in data",
                     Missing(rule.config.taskIds, context.availableTaskIds))
    [] rule.type = "load-limit" ->
         IF ~Available(context.availableWorkerGroups, rule.config.workerGroup)
         THEN <<Message("Worker group not found in data",
                        <<GroupText(rule.config.workerGroup)>>)>>
         ELSE <<>>
    [] rule.type = "slot-restriction" ->
         (IF /\ ~FalsyText(rule.config.workerGroup)
             /\ ~Available(context.availableWorkerGroups, rule.config.workerGroup)
          THEN <<Message("Worker group not found in data",
                         <<GroupText(rule.config.workerGroup)>>)>>
          ELSE <<>>)
         \o (IF /\ ~FalsyText(rule.config.clientGroup)
                /\ ~Available(context.availableClientGroups, rule.config.clientGroup)
             THEN <<Message("Client group not found in data",
                            <<GroupText(rule.config.clientGroup)>>)>>
             ELSE <<>>)
    [] rule.type = "phase-window" ->
         IF ~Available(context.availableTaskIds, rule.config.taskId)
         THEN <<Message("Task ID not found in data", <<GroupText(rule.config.taskId)>>)>>
         ELSE <<>>
    [] rule.type = "precedence-override" ->
         WarnMissing("Higher priority items not found",
                     Missing(rule.config.higherPriorityItems,
                             EntityIds(rule.config, context)))
         \o WarnMissing("Lower priority items not found",
                        Missing(rule.config.lowerPriorityItems,
                                EntityIds(rule.config, context)))
    [] OTHER -> <<>>

\* The result starts valid and without errors, and only warnings are pushed.
validateRuleAgainstData(rule, context) ==
  [isValid |-> TRUE, errors |-> <<>>, warnings |-> DataWarnings(rule, context),
   suggestions |-> <<>>]

(***************************************************************************)
(* The rules the validators are applied to.                                *)
(***************************************************************************)
A == <<"A">>
B == <<"B">>
C == <<"C">>

WithConfig(name, description, type, priority, config) ==
  Rule(<<"r">>, name, description, type, priority, config)

CoRun(name, taskIds, mustRunTogether) ==
  WithConfig(name, <<"d">>, "co-run", 1,
             [NoConfig EXCEPT !.taskIds = taskIds, !.mustRunTogether = mustRunTogether])

LoadLimit(name, workerGroup, maxSlotsPerPhase, phases) ==
  WithConfig(name, <<"d">>, "load-limit", 1,
             [NoConfig EXCEPT !.workerGroup = workerGroup,
                              !.maxSlotsPerPhase = maxSlotsPerPhase, !.phases = phases])

\* Rules that conflict, repeat a name or share a worker group.
R1 == CoRun(<<"A">>, <<A, B>>, Some(TRUE))
R2 == CoRun(<<"B">>, <<B, C>>, Some(FALSE))
ConflictRules ==
  {R1, R2,
   CoRun(<<"a", " ">>, <<A, C>>, Some(TRUE)),
   CoRun(<<" ", "b">>, <<A, B>>, Some(FALSE)),
   LoadLimit(<<"A">>, Some(<<"g">>), Some(5), None),
   LoadLimit(<<"a">>, Some(<<"g">>), Some(5), None),
   LoadLimit(<<"B">>, Some(<<"h">>), Some(5), None)}

RECURSIVE SeqsOf(_, _)
SeqsOf(S, n) ==
  IF n = 0 THEN {<<>>} ELSE {Append(s, x) : s \in SeqsOf(S, n - 1), x \in S}

ConflictCollections == UNION {SeqsOf(ConflictRules, n) : n \in 1..MaxRules}

\* Rules of every variant, well formed and not.
BaseRules ==
  {WithConfig(name, description, "co-run", priority,
              [NoConfig EXCEPT !.taskIds = <<A, B>>, !.mustRunTogether = Some(TRUE)]) :
     name \in {<<"A">>, <<" ">>}, description \in {<<"d">>, <<>>},
     priority \in {-1, 0, 1, 100, 101}}
  \cup {WithConfig(<<"A">>, <<"d">>, "bogus", 1, NoConfig)}

\* Ten and eleven task ids, the eleven with and without a repeated id.
TenTasks == <<A, B, C, <<"D">>, <<"E">>, <<"F">>, <<"G">>, <<"H">>, <<"I">>, <<"J">>>>
ManyTasks == {TenTasks, Append(TenTasks, <<"K">>), Append(TenTasks, A)}

CoRunRules ==
  {CoRun(<<"A">>, taskIds, mustRunTogether) :
     taskIds \in {<<>>, <<A>>, <<A, B>>, <<A, A>>, <<A, <<" ">>>>, <<A, <<"Z">>>>}
                 \cup ManyTasks,
     mustRunTogether \in {None, Some(TRUE)}}

SlotRestrictionRules ==
  {WithConfig(<<"A">>, <<"d">>, "slot-restriction", 1,
              [NoConfig EXCEPT !.workerGroup = workerGroup, !.clientGroup = clientGroup,
                               !.minCommonSlots = minCommonSlots,
                               !.maxCommonSlots = maxCommonSlots, !.phases = phases]) :
     workerGroup \in {None, Some(<<>>), Some(<<"g">>), Some(<<"x">>)},
     clientGroup \in {None, Some(<<"c">>), Some(<<"y">>)},
     minCommonSlots \in {None, Some(-1), Some(1), Some(25)},
     maxCommonSlots \in {None, Some(0)},
     phases \in {None, Some(<<>>)}}

LoadLimitRules ==
  {LoadLimit(<<"A">>, workerGroup, maxSlotsPerPhase, phases) :
     workerGroup \in {Some(<<>>), Some(<<" ">>), Some(<<"g">>), Some(<<"x">>)},
     maxSlotsPerPhase \in {None, Some(0), Some(5), Some(101)},
     phases \in {None, Some(<<>>)}}

TimeWindows ==
  {None, Some([start |-> Fin(1), end |-> Fin(2)]), Some([start |-> Fin(2), end |-> Fin(1)]),
   Some([start |-> NaN, end |-> Fin(1)])}

PhaseWindowRules ==
  {WithConfig(<<"A">>, <<"d">>, "phase-window", 1,
              [NoConfig EXCEPT !.taskId = taskId, !.allowedPhases = allowedPhases,
                               !.restrictedPhases = restrictedPhases,
                               !.timeWindow = timeWindow]) :
     taskId \in {Some(<<>>), Some(A), Some(<<"Z">>)},
     allowedPhases \in {<<>>, <<<<"1">>>>},
     restrictedPhases \in {None, Some(<<<<"1">>>>)},
     timeWindow \in TimeWindows}

PatternMatchRules ==
  {WithConfig(<<"A">>, <<>>, "pattern-match", 1,
              [NoConfig EXCEPT !.field = field, !.pattern = pattern, !.action = action,
                               !.entityType = entityType, !.message = message]) :
     field \in {Some(<<>>), Some(<<"f">>)},
     pattern \in {None, Some(<<" ">>), Some(<<"a">>), Some(<<"(">>), Some(<<"a", "*">>),
                  Some(<<"*">>)},
     action \in {None, Some(<<"f", "l", "a", "g">>), Some(<<"a", "l", "l", "o", "w">>)},
     entityType \in {None, Some(<<"t", "a", "s", "k", "s">>)},
     message \in {None, Some(<<"m">>)}}

PrecedenceOverrideRules ==
  {WithConfig(<<"A">>, <<"d">>, "precedence-override", 1,
              [NoConfig EXCEPT !.higherPriorityItems = higherPriorityItems,
                               !.lowerPriorityItems = lowerPriorityItems,
                               !.entityType = entityType]) :
     higherPriorityItems \in {<<>>, <<A>>, <<<<"g">>>>, <<A, A>>},
     lowerPriorityItems \in {<<>>, <<A>>, <<<<"c">>>>},
     entityType \in {None} \cup {Some(e) : e \in EntityNames}}

VariantRules ==
  BaseRules \cup CoRunRules \cup SlotRestrictionRules \cup LoadLimitRules
  \cup PhaseWindowRules \cup PatternMatchRules \cup PrecedenceOverrideRules

RuleCollections == ConflictCollections \cup {<<rule>> : rule \in VariantRules}

\* The data contexts: no data, and data with tasks A and B, worker group g
\* and client group c.
DataContexts ==
  {DataContext(<<>>, <<>>, <<>>), DataContext(<<A, B>>, <<<<"g">>>>, <<<<"c">>>>)}

(***************************************************************************)
(* The rule validators applied to a rule collection.                       *)
(***************************************************************************)
RuleInit ==
  /\ clients = <<>> /\ workers = <<>> /\ tasks = <<>>
  /\ call = NoCall
  /\ result = <<>>
  /\ StoreCreated
  /\ rules \in RuleCollections
  /\ dataContext = DataContext(<<>>, <<>>, <<>>)
  /\ clock = 0

RuleReturns(op, index, context, validation) ==
  /\ call' = Called(op, "rules", index)
  /\ result' = validation
  /\ dataContext' = context
  /\ UNCHANGED <<clients, workers, tasks, storeVars, rules, clock>>

ValidateRule ==
  \E i \in 1..Len(rules) :
    RuleReturns("validateRule", i - 1, dataContext, validateRule(rules[i]))

RuleConflicts ==
  \E collection \in {rules} :
    RuleReturns("validateRuleConflicts", 0, dataContext, validateRuleConflicts(collection))

RuleAgainstData ==
  \E i \in 1..Len(rules) : \E context \in DataContexts :
    RuleReturns("validateRuleAgainstData", i - 1, context,
                validateRuleAgainstData(rules[i], context))

RuleNext ==
  \/ ValidateRule
  \/ RuleConflicts
  \/ RuleAgainstData

RuleSpec == RuleInit /\ [][RuleNext]_vars

\* The rule the last call was applied to.
CalledRule == rules[call.index + 1]

(***************************************************************************)
(* Claims about rule validation.                                           *)
(***************************************************************************)
IsCoRun(rule) == rule.type = "co-run"
SharedTasks(rule1, rule2) ==
  {rule1.config.taskIds[k] : k \in 1..Len(rule1.config.taskIds)}
  \cap {rule2.config.taskIds[k] : k \in 1..Len(rule2.config.taskIds)}

\* The unordered pairs of co-run rules of a collection that share a task id
\* and differ in mustRunTogether.
ConflictingPairs(collection) ==
  {pair \in SUBSET (1..Len(collection)) :
     /\ Cardinality(pair) = 2
     /\ \A i \in pair : IsCoRun(collection[i])
     /\ \E i \in pair : \E j \in pair :
          /\ i # j
          /\ SharedTasks(collection[i], collection[j]) # {}
          /\ collection[i].config.mustRunTogether # collection[j].config.mustRunTogether}

Reorderings(collection) ==
  {[k \in 1..Len(collection) |-> collection[p[k]]] :
     p \in {q \in [1..Len(collection) -> 1..Len(collection)] :
              \A a \in 1..Len(collection) : \A b \in 1..Len(collection) :
                q[a] = q[b] => a = b}}

\* C11: validateRuleConflicts returns as many errors as the collection has
\* unordered pairs of co-run rules that share a task id and differ in
\* mustRunTogether; every reordering of the collection has as many; and
\* for R1 = {A, B, true}, R2 = {B, C, false}, in either order, it is one
\* error that names task B.
C11_ConflictErrorsCountPairs ==
  call.op = "validateRuleConflicts" =>
    /\ Len(result.errors) = Cardinality(ConflictingPairs(rules))
    /\ \A reordered \in Reorderings(rules) :
         Cardinality(ConflictingPairs(reordered)) = Len(result.errors)
    /\ rules \in {<<R1, R2>>, <<R2, R1>>} =>
         /\ Len(result.errors) = 1
         /\ result.errors[1].args[1] = B

C11_Witness ==
  /\ call.op = "validateRuleConflicts"
  /\ rules = <<R2, R1>>
  /\ Len(result.errors) = 1

\* The names of two rules are equal once trimmed and lower-cased.
SameName(rule1, rule2) == ToLowerCase(Trim(rule1.name)) = ToLowerCase(Trim(rule2.name))

\* The positions of the warnings of a result that carry the text msg.
WarningsWith(validation, msg) ==
  {k \in 1..Len(validation.warnings) : validation.warnings[k].msg = msg}

\* The warning at k names the positions i and j (counted from 1).
NamesPositions(validation, k, i, j) ==
  /\ validation.warnings[k].args[2] = NatToStr(i)
  /\ validation.warnings[k].args[3] = NatToStr(j)

\* C12 as stated: for any two rules of a collection whose names are equal
\* after trimming and lower-casing, validateRuleConflicts returns a warning
\* naming the positions of both; two such rules and no third give exactly
\* one warning, and pairwise distinct names give none.
C12_EveryCollidingPairNamed ==
  call.op = "validateRuleConflicts" =>
    /\ \A i \in 1..Len(rules) : \A j \in (i + 1)..Len(rules) :
         SameName(rules[i], rules[j]) =>
           \E k \in WarningsWith(result, "Duplicate rule name") :
             NamesPositions(result, k, i, j)
    /\ (\A i \in 1..Len(rules) : \A j \in (i + 1)..Len(rules) :
          ~SameName(rules[i], rules[j])) =>
         WarningsWith(result, "Duplicate rule name") = {}

\* The first position of the collection whose rule has the name of rule j.
FirstNamed(collection, j) ==
  CHOOSE i \in 1..j :
    /\ SameName(collection[i], collection[j])
    /\ \A h \in 1..(i - 1) : ~SameName(collection[h], collection[j])

\* C12, amended: validateRuleConflicts returns one duplicate-name warning for
\* each rule whose trimmed, lower-cased name is that of an earlier rule; the
\* warning names the position of the first rule with that name and the
\* position of the rule itself, and there is no other duplicate-name
\* warning.  Two rules that collide with a third, earlier one are each named
\* with that one, never with each other.
C12_LaterDuplicateNamedWithFirst ==
  call.op = "validateRuleConflicts" =>
    /\ \A j \in 1..Len(rules) :
         Cardinality({k \in WarningsWith(result, "Duplicate rule name") :
                        result.warnings[k].args[3] = NatToStr(j)})
         = IF FirstNamed(rules, j) < j THEN 1 ELSE 0
    /\ \A k \in WarningsWith(result, "Duplicate rule name") :
         \E j \in 1..Len(rules) :
           /\ FirstNamed(rules, j) < j
           /\ NamesPositions(result, k, FirstNamed(rules, j), j)
           /\ result.warnings[k].args[1] = rules[j].name

C12_Witness ==
  /\ call.op = "validateRuleConflicts"
  /\ Len(rules) = 3
  /\ SameName(rules[1], rules[2]) /\ SameName(rules[2], rules[3])
  /\ Cardinality(WarningsWith(result, "Duplicate rule name")) = 2

IsLoadLimit(rule) == rule.type = "load-limit"

\* The load-limit rules of a collection that target the worker group, in
\* the order of the collection.
Targeting(collection, group) ==
  SelectSeq(collection, LAMBDA rule : IsLoadLimit(rule) /\ rule.config.workerGroup = group)

TargetedGroups(collection) ==
  {collection[i].config.workerGroup : i \in {h \in 1..Len(collection) :
                                               IsLoadLimit(collection[h])}}

\* C13: validateRuleConflicts returns exactly one warning for each worker
\* group that more than one load-limit rule targets, listing the names of
\* all the rules of the group, and none for a group targeted once; neither
\* these warnings nor the duplicate-name warnings add an error: the errors
\* are the co-run conflicts alone and isValid is false only with one.
C13_OneWarningPerRedundantGroup ==
  call.op = "validateRuleConflicts" =>
    /\ \A group \in TargetedGroups(rules) :
         LET named == {k \in WarningsWith(result,
                                          "Multiple load limit rules for worker group") :
                         result.warnings[k].args[1] = GroupText(group)}
         IN IF Len(Targeting(rules, group)) > 1
            THEN /\ Cardinality(named) = 1
                 /\ \A k \in named :
                      result.warnings[k].args[2]
                      = Join([i \in 1..Len(Targeting(rules, group)) |->
                                Targeting(rules, group)[i].name], <<",", " ">>)
            ELSE named = {}
    /\ \A k \in WarningsWith(result, "Multiple load limit rules for worker group") :
         \E group \in TargetedGroups(rules) : result.warnings[k].args[1] = GroupText(group)
    /\ \A k \in 1..Len(result.errors) :
         result.errors[k].msg = "Conflicting co-run rules for tasks"
    /\ result.isValid = (ConflictingPairs(rules) = {})

C13_Witness ==
  /\ call.op = "validateRuleConflicts"
  /\ Cardinality(TargetedGroups(rules)) = 2
  /\ Cardinality(WarningsWith(result, "Multiple load limit rules for worker group")) = 1
  /\ WarningsWith(result, "Duplicate rule name") # {}
  /\ result.isValid

\* C14: the result of validateRule and of validateRuleConflicts has
\* isValid true exactly when its errors list is empty, whatever its
\* warnings and suggestions are.
C14_ValidIffNoErrors ==
  call.op \in {"validateRule", "validateRuleConflicts"} =>
    result.isValid = (Len(result.errors) = 0)

C14_Witness ==
  /\ call.op = "validateRule"
  /\ result.isValid
  /\ result.warnings # <<>>
  /\ result.suggestions # <<>>

Reference(kind, id) == [kind |-> kind, id |-> id]
ItemsOf(list) == {list[i] : i \in 1..Len(list)}

\* The kind of identifier the items of a precedence-override rule are.
ItemKind(config) ==
  CASE config.entityType = Some(<<"c", "l", "i", "e", "n", "t", "s">>) -> "client"
    [] config.entityType = Some(<<"w", "o", "r", "k", "e", "r", "s">>) -> "worker"
    [] OTHER -> "task"

\* The identifiers a rule refers to: a required field as it stands, an
\* optional group when it is specified.
References(rule) ==
  CASE rule.type = "co-run" -> {Reference("task", id) : id \in ItemsOf(rule.config.taskIds)}
    [] rule.type = "load-limit" ->
         {Reference("worker", rule.config.workerGroup[i]) :
            i \in 1..Len(rule.config.workerGroup)}
    [] rule.type = "slot-restriction" ->
         {Reference("worker", rule.config.workerGroup[i]) :
            i \in {h \in 1..Len(rule.config.workerGroup) : rule.config.workerGroup[h] # <<>>}}
         \cup {Reference("client", rule.config.clientGroup[i]) :
                 i \in {h \in 1..Len(rule.config.clientGroup) :
                          rule.config.clientGroup[h] # <<>>}}
    [] rule.type = "phase-window" ->
         {Reference("task", rule.config.taskId[i]) : i \in 1..Len(rule.config.taskId)}
    [] rule.type = "precedence-override" ->
         {Reference(ItemKind(rule.config), id) :
            id \in ItemsOf(rule.config.higherPriorityItems)
                   \cup ItemsOf(rule.config.lowerPriorityItems)}
    [] OTHER -> {}

\* The available set an identifier of the kind is looked up in.
AvailableSet(context, kind) ==
  CASE kind = "task" -> ItemsOf(context.availableTaskIds)
    [] kind = "worker" -> ItemsOf(context.availableWorkerGroups)
    [] OTHER -> ItemsOf(context.availableClientGroups)

Absent(rule, context) ==
  {ref \in References(rule) : ref.id \notin AvailableSet(context, ref.kind)}

\* The identifiers a warning lists after its colon, separated by ", ".
Listed(warning) ==
  LET parts == Split(warning.args[1], ",")
  IN {parts[1]} \cup {Tail(parts[k]) : k \in 2..Len(parts)}

\* The entity type of a precedence-override rule names one of the three
\* collections, so its items have an available set to be looked up in.
Determinate(rule) ==
  rule.type = "precedence-override" =>
    Has(rule.config.entityType) /\ rule.config.entityType[1] \in EntityNames

\* C15: validateRuleAgainstData returns no error and isValid true for every
\* rule and data context; each task id, worker group or client group the
\* rule refers to that the context does not offer is named by a warning; a
\* rule whose references the context all offers gets no warning.
C15_AbsentReferencesWarned ==
  call.op = "validateRuleAgainstData" =>
    /\ result.errors = <<>>
    /\ result.isValid
    /\ Determinate(CalledRule) =>
         /\ \A ref \in Absent(CalledRule, dataContext) :
              \E k \in 1..Len(result.warnings) : ref.id \in Listed(result.warnings[k])
         /\ Absent(CalledRule, dataContext) = {} => result.warnings = <<>>

C15_Witness ==
  /\ call.op = "validateRuleAgainstData"
  /\ CalledRule.type = "slot-restriction"
  /\ dataContext.availableWorkerGroups # <<>>
  /\ Cardinality(Absent(CalledRule, dataContext)) = 2
  /\ Len(result.warnings) = 2

\* An optional text is missing or the empty text.
EmptyText(o) == ~Has(o) \/ o[1] = <<>>

\* The rule lacks a numeric or boolean field its variant requires.
LacksRequiredValue(rule) ==
  CASE rule.type = "co-run" -> ~Has(rule.config.mustRunTogether)
    [] rule.type = "slot-restriction" -> ~Has(rule.config.minCommonSlots)
    [] rule.type = "load-limit" -> ~Has(rule.config.maxSlotsPerPhase)
    [] OTHER -> FALSE

\* The rule has too few task ids, or an empty text or list where its
\* variant requires one.
LacksRequiredText(rule) ==
  CASE rule.type = "co-run" -> Len(rule.config.taskIds) < 2
    [] rule.type = "load-limit" -> EmptyText(rule.config.workerGroup)
    [] rule.type = "phase-window" ->
         EmptyText(rule.config.taskId) \/ rule.config.allowedPhases = <<>>
    [] rule.type = "pattern-match" ->
         EmptyText(rule.config.field) \/ EmptyText(rule.config.pattern)
    [] OTHER -> FALSE

\* C16: validateRule returns isValid false for every rule that lacks a
\* configuration field its variant requires: a co-run rule without
\* mustRunTogether or with fewer than 2 task ids, a slot-restriction rule
\* without minCommonSlots, a load-limit rule without maxSlotsPerPhase or
\* with an empty workerGroup, a phase-window rule with an empty taskId or
\* no allowed phase, a pattern-match rule with an empty field or pattern.
C16_MissingRequiredFieldInvalid ==
  (/\ call.op = "validateRule"
   /\ LacksRequiredValue(CalledRule) \/ LacksRequiredText(CalledRule))
  => ~result.isValid

(***************************************************************************)
(* validateAllRows on its own: applied to one loaded collection and to     *)
(* three, with and without the cross-entity data.                          *)
(***************************************************************************)
\* Phase encodings of every shape on the tasks against one worker, and slot
\* encodings of every shape on the workers against one task.
EncodingInputs ==
  ({<<BaseRow("clients", 1)>>}
   \X {<<[BaseRow("workers", 1) EXCEPT !["AvailableSlots"] = Str(<<"[", "1", ",", "2", "]">>),
                                       !["MaxLoadPerPhase"] = Num(5)]>>}
   \X UpTo("tasks", MaxRows, "Duration", "PreferredPhases", TaskPhaseValues,
           PlainTaskPhaseValues))
  \cup ({<<BaseRow("clients", 1)>>}
        \X UpTo("workers", MaxRows, "AvailableSlots", "MaxLoadPerPhase", WorkerSlotValues,
                PlainWorkerSlotValues)
        \X {<<[BaseRow("tasks", 1) EXCEPT !["Duration"] = Num(2),
                                         !["PreferredPhases"] = Str(<<"[", "1", "]">>)]>>})

AllRowsInit == Init \/ Loaded(EncodingInputs)

AllRowsNext ==
  \/ AllRows
  \/ AllRowsAcross

AllRowsSpec == AllRowsInit /\ [][AllRowsNext]_vars

\* The entry is a Validation Error: a row index, a column of an entity
\* type, a message and a severity.
IsValidationError(entry) ==
  /\ entry.rowIndex \in Nat
  /\ \E e \in EntityTypes : entry.column \in Columns(e)
  /\ entry.error.msg # ""
  /\ entry.severity \in {"error", "warning"}

MaxTimers == 2

\* The collections a file upload hands to setEntityData: one row each, the
\* client asking for task T1, which the task row holds, or for T9, which it
\* does not; the task requiring a skill the worker does not have.
StoreCollections(entityType) ==
  CASE entityType = "clients" ->
         {<<BaseRow("clients", 1)>>,
          <<[BaseRow("clients", 1) EXCEPT !["RequestedTaskIDs"] = Str(<<"T", "9">>)]>>}
    [] entityType = "workers" -> {<<BaseRow("workers", 1)>>}
    [] OTHER -> {<<[BaseRow("tasks", 1) EXCEPT !["RequiredSkills"] = Str(<<"g", "o">>)]>>}

\* The cells a user edits.
CellEdits ==
  {[entity |-> "clients", column |-> "RequestedTaskIDs", value |-> Str(<<"T", "9">>)],
   [entity |-> "clients", column |-> "PriorityLevel", value |-> Num(9)],
   [entity |-> "tasks", column |-> "TaskID", value |-> Str(<<"T", "2">>)]}

Change(rowIndex, column, suggestedValue) ==
  [rowIndex |-> rowIndex, column |-> column, suggestedValue |-> suggestedValue]

\* The modification command the assistant proposes: one change to the first
\* client row and one to a row the collection does not have.
ModificationCommands ==
  {[id |-> <<"m", "1">>, entityType |-> "clients", status |-> "pending",
    suggestedChanges |-> <<Change(0, "RequestedTaskIDs", Str(<<"T", "1">>)),
                           Change(1, "RequestedTaskIDs", Str(<<"T", "1">>))>>]}

\* The batch of corrections the assistant proposes for the task rows.
ErrorCorrectionBatches ==
  {[id |-> <<"b", "1">>, entityType |-> "tasks", status |-> "pending",
    suggestions |-> <<[id |-> <<"s", "1">>, rowIndex |-> 0, column |-> "RequiredSkills",
                       suggestedValue |-> Str(<<"j", "s">>)]>>]}

\* The ids an apply operation is called with: one the store holds, one it
\* does not.
CommandIds == {<<"m", "1">>, <<"m", "0">>}
BatchIds == {<<"b", "1">>, <<"b", "0">>}
SuggestionSelections == {<<>>, <<<<"s", "1">>>>}

\* { ...row, [column]: value }
WithCell(row, column, value) ==
  [c \in DOMAIN row \cup {column} |-> IF c = column THEN value ELSE row[c]]

\* updatedRows[rowIndex] = { ...updatedRows[rowIndex], [column]: value }: an
\* index one past the last row adds a row holding that cell alone.
WithRowCell(rows, rowIndex, column, value) ==
  IF rowIndex < Len(rows)
  THEN [rows EXCEPT ![rowIndex + 1] = WithCell(@, column, value)]
  ELSE Append(rows, WithCell(<<>>, column, value))

\* list.find(x => x.id === id): the first element with the id, as a sequence
\* of at most one element.
Find(list, id) ==
  IF \E k \in 1..Len(list) : list[k].id = id
  THEN <<list[CHOOSE k \in 1..Len(list) :
                list[k].id = id /\ \A h \in 1..(k - 1) : list[h].id # id]>>
  ELSE <<>>

\* The position in `list` of the element find returns, 0 when it returns none.
Position(list, id) ==
  IF \E k \in 1..Len(list) : list[k].id = id
  THEN CHOOSE k \in 1..Len(list) : list[k].id = id /\ \A h \in 1..(k - 1) : list[h].id # id
  ELSE 0

\* list.map(x => x.id === id ? { ...x, status: 'rejected' } : x)
MarkRejected(list, id) ==
  [k \in 1..Len(list) |->
     IF list[k].id = id THEN [list[k] EXCEPT !.status = "rejected"] ELSE list[k]]

\* list.map(x => x.id === id ? { ...x, status: 'applied' } : x)
MarkApplied(list, id) ==
  [k \in 1..Len(list) |->
     IF list[k].id = id THEN [list[k] EXCEPT !.status = "applied"] ELSE list[k]]

\* The forEach over the changes: a change to a row the collection holds
\* replaces the cell, a change to any other row index is skipped.
RECURSIVE ApplyChanges(_, _)
ApplyChanges(rows, changes) ==
  IF changes = <<>> THEN rows
  ELSE ApplyChanges(
         IF Head(changes).rowIndex < Len(rows)
         THEN [rows EXCEPT ![Head(changes).rowIndex + 1] =
                 WithCell(@, Head(changes).column, Head(changes).suggestedValue)]
         ELSE rows,
         Tail(changes))

\* suggestions.filter(s => selectedSuggestionIds.includes(s.id))
RECURSIVE Selected(_, _)
Selected(suggestions, selectedSuggestionIds) ==
  IF suggestions = <<>> THEN <<>>
  ELSE (IF ArrayIncludes(selectedSuggestionIds, Head(suggestions).id)
        THEN <<Head(suggestions)>> ELSE <<>>)
       \o Selected(Tail(suggestions), selectedSuggestionIds)

NonEmptyAll_Any(clientRows, workerRows, taskRows) ==
  Len(clientRows) > 0 \/ Len(workerRows) > 0 \/ Len(taskRows) > 0

\* clients.rows.length > 0 && workers.rows.length > 0 && tasks.rows.length > 0
NonEmptyAll(clientRows, workerRows, taskRows) ==
  Len(clientRows) > 0 /\ Len(workerRows) > 0 /\ Len(taskRows) > 0

\* set({ [entity]: { rows, validationErrors } })
SetEntity(entity, rows, errors) ==
  /\ clients' = IF entity = "clients" THEN rows ELSE clients
  /\ workers' = IF entity = "workers" THEN rows ELSE workers
  /\ tasks' = IF entity = "tasks" THEN rows ELSE tasks
  /\ validationErrors' = [validationErrors EXCEPT ![entity] = errors]

\* setTimeout(() => get().triggerCrossEntityValidation(), 100)
SetTimeout ==
  /\ timers < MaxTimers
  /\ timers' = timers + 1

StoreInit ==
  /\ clients = <<>> /\ workers = <<>> /\ tasks = <<>>
  /\ call = NoCall
  /\ result = <<>>
  /\ StoreCreated
  /\ RulesCreated

\* setEntityData(entity, data), data.validationErrors computed by the upload
\* as validateAllRows(rows, entity).
SetEntityData ==
  \E entity \in EntityTypes : \E rows \in StoreCollections(entity) :
    /\ SetEntity(entity, rows, validateAllRows(rows, entity, NoData))
    /\ SetTimeout
    /\ call' = Called("setEntityData", entity, 0)
    /\ UNCHANGED <<result, modificationCommands, errorCorrectionBatches, ruleVars>>

\* updateCell(entity, rowIndex, column, value) on a cell of the grid.
UpdateCell ==
  \E edit \in CellEdits : \E rowIndex \in 0..(Len(Rows(edit.entity)) - 1) :
    \E updatedRows \in {WithRowCell(Rows(edit.entity), rowIndex, edit.column, edit.value)} :
      /\ SetEntity(edit.entity, updatedRows, validateAllRows(updatedRows, edit.entity, NoData))
      /\ SetTimeout
      /\ call' = Called("updateCell", edit.entity, rowIndex)
      /\ UNCHANGED <<result, modificationCommands, errorCorrectionBatches, ruleVars>>

\* set({ [entity]: initialEntityData }): no validation is scheduled.
ResetEntityData ==
  \E entity \in EntityTypes :
    /\ SetEntity(entity, <<>>, <<>>)
    /\ call' = Called("resetEntityData", entity, 0)
    /\ UNCHANGED <<result, timers, modificationCommands, errorCorrectionBatches, ruleVars>>

\* A scheduled timer fires and calls triggerCrossEntityValidation.
TriggerCrossEntityValidation ==
  /\ timers > 0
  /\ timers' = timers - 1
  /\ IF NonEmptyAll(clients, workers, tasks)
     THEN validationErrors' =
            [e \in EntityTypes |->
               validateAllRows(Rows(e), e, AllData(clients, workers, tasks))]
     ELSE UNCHANGED validationErrors
  /\ call' = Called("triggerCrossEntityValidation", "none", 0)
  /\ UNCHANGED <<clients, workers, tasks, result, modificationCommands,
                 errorCorrectionBatches, ruleVars>>

\* Each proposed command reaches the store once.
AddModificationCommand ==
  \E command \in ModificationCommands :
    /\ Find(modificationCommands, command.id) = <<>>
    /\ modificationCommands' = Append(modificationCommands, command)
    /\ call' = Called("addModificationCommand", command.entityType, 0)
    /\ UNCHANGED <<clients, workers, tasks, result, validationErrors, timers,
                   errorCorrectionBatches, ruleVars>>

ApplyModificationCommand ==
  \E commandId \in CommandIds :
    \E found \in {Find(modificationCommands, commandId)} :
      /\ call' = Called("applyModificationCommand",
                        IF found = <<>> THEN "none" ELSE found[1].entityType,
                        Position(modificationCommands, commandId))
      /\ IF found = <<>>
         THEN UNCHANGED <<clients, workers, tasks, validationErrors, timers,
                          modificationCommands>>
         ELSE \E updatedRows \in {ApplyChanges(Rows(found[1].entityType),
                                               found[1].suggestedChanges)} :
                /\ SetEntity(found[1].entityType, updatedRows,
                             validateAllRows(updatedRows, found[1].entityType, NoData))
                /\ modificationCommands' = MarkApplied(modificationCommands, commandId)
                /\ SetTimeout
      /\ UNCHANGED <<result, errorCorrectionBatches, ruleVars>>

AddErrorCorrectionBatch ==
  \E batch \in ErrorCorrectionBatches :
    /\ Find(errorCorrectionBatches, batch.id) = <<>>
    /\ errorCorrectionBatches' = Append(errorCorrectionBatches, batch)
    /\ call' = Called("addErrorCorrectionBatch", batch.entityType, 0)
    /\ UNCHANGED <<clients, workers, tasks, result, validationErrors, timers,
                   modificationCommands, ruleVars>>

ApplyErrorCorrections ==
  \E batchId \in BatchIds : \E selectedSuggestionIds \in SuggestionSelections :
    \E found \in {Find(errorCorrectionBatches, batchId)} :
      /\ call' = Called("applyErrorCorrections",
                        IF found = <<>> THEN "none" ELSE found[1].entityType, 0)
      /\ IF found = <<>>
         THEN UNCHANGED <<clients, workers, tasks, validationErrors, timers,
                          errorCorrectionBatches>>
         ELSE \E updatedRows \in {ApplyChanges(Rows(found[1].entityType),
                                               Selected(found[1].suggestions,
                                                        selectedSuggestionIds))} :
                /\ SetEntity(found[1].entityType, updatedRows,
                             validateAllRows(updatedRows, found[1].entityType, NoData))
                /\ errorCorrectionBatches' = MarkApplied(errorCorrectionBatches, batchId)
                /\ SetTimeout
      /\ UNCHANGED <<result, modificationCommands, ruleVars>>

StoreNext ==
  \/ SetEntityData
  \/ UpdateCell
  \/ ResetEntityData
  \/ TriggerCrossEntityValidation
  \/ AddModificationCommand
  \/ ApplyModificationCommand
  \/ AddErrorCorrectionBatch
  \/ ApplyErrorCorrections

StoreSpec == StoreInit /\ [][StoreNext]_vars

(***************************************************************************)
(* The edits of the data store, updateCell with a row index past the last  *)
(* row included.                                                           *)
(***************************************************************************)
\* The edit updateCell is called with for a row the collection does not have.
BeyondEdits ==
  {[entity |-> "clients", column |-> "RequestedTaskIDs", value |-> Str(<<"T", "9">>)]}

\* updateCell(entity, rows.length, column, value)
UpdateCellBeyond ==
  \E edit \in BeyondEdits : \E rowIndex \in {Len(Rows(edit.entity))} :
    \E updatedRows \in {WithRowCell(Rows(edit.entity), rowIndex, edit.column, edit.value)} :
      /\ rowIndex < MaxRows
      /\ SetEntity(edit.entity, updatedRows, validateAllRows(updatedRows, edit.entity, NoData))
      /\ SetTimeout
      /\ call' = Called("updateCell", edit.entity, rowIndex)
      /\ UNCHANGED <<result, modificationCommands, errorCorrectionBatches, ruleVars>>

EditNext ==
  \/ SetEntityData
  \/ UpdateCell
  \/ UpdateCellBeyond
  \/ TriggerCrossEntityValidation
  \/ AddModificationCommand
  \/ ApplyModificationCommand
  \/ AddErrorCorrectionBatch
  \/ ApplyErrorCorrections

EditSpec == StoreInit /\ [][EditNext]_vars

(***************************************************************************)
(* The modification commands of the data store: proposed, applied and      *)
(* rejected, with the edits of the grid in between.                        *)
(***************************************************************************)
RejectModificationCommand ==
  \E commandId \in CommandIds :
    /\ modificationCommands' = MarkRejected(modificationCommands, commandId)
    /\ call' = Called("rejectModificationCommand", "none",
                      Position(modificationCommands, commandId))
    /\ UNCHANGED <<clients, workers, tasks, result, validationErrors, timers,
                   errorCorrectionBatches, ruleVars>>

CommandNext ==
  \/ SetEntityData
  \/ UpdateCell
  \/ TriggerCrossEntityValidation
  \/ AddModificationCommand
  \/ ApplyModificationCommand
  \/ RejectModificationCommand

CommandSpec == StoreInit /\ [][CommandNext]_vars

(***************************************************************************)
(* Claims about the data store.                                            *)
(***************************************************************************)
\* A validation of the current rows from scratch: schema checks, and the
\* cross-entity checks when all three collections hold rows.
Fresh(entityType) ==
  validateAllRows(Rows(entityType), entityType,
                  IF Populated = EntityTypes THEN AllData(clients, workers, tasks)
                  ELSE NoData)

\* C18: once every scheduled cross-entity validation has run, the
\* validationErrors of each collection are what a fresh validation of the
\* current rows returns; no collection keeps an entry computed from rows
\* of another collection that have since been changed or removed.
C18_QuiescentErrorsAreFresh ==
  timers = 0 => \A e \in EntityTypes : validationErrors[e] = Fresh(e)

\* The fixed texts of the entries pushed by the cross-entity validators
\* (unknown references, skill coverage, phase-slot saturation).
CrossEntityTexts ==
  {"Unknown task reference: ", "No workers have skills: ",
   "Phase is oversaturated: demand vs capacity", "Invalid phase format"}

IsCrossEntityEntry(entry) == entry.error.msg \in CrossEntityTexts

HasCrossEntityEntry(errors) ==
  \E k \in 1..Len(errors) : IsCrossEntityEntry(errors[k])

EditingOps == {"updateCell", "applyModificationCommand", "applyErrorCorrections"}

\* C19: the cross-entity checks run only when clients, workers and tasks
\* each hold at least one row.  A step of triggerCrossEntityValidation
\* taken while a collection is empty leaves the three validationErrors
\* lists unchanged; the list written by updateCell,
\* applyModificationCommand or applyErrorCorrections holds no entry of a
\* cross-entity check; and a list that changes into one holding such an
\* entry was written by triggerCrossEntityValidation with all three
\* collections populated.
C19_CrossChecksOnlyWhenAllPopulated ==
  [][/\ (call'.op = "triggerCrossEntityValidation" /\ Populated # EntityTypes)
          => UNCHANGED validationErrors
     /\ \A e \in EntityTypes :
          /\ (call'.op \in EditingOps /\ call'.entityType = e)
               => ~HasCrossEntityEntry(validationErrors'[e])
          /\ (validationErrors'[e] # validationErrors[e]
                /\ HasCrossEntityEntry(validationErrors'[e]))
               => /\ call'.op = "triggerCrossEntityValidation"
                  /\ Populated = EntityTypes]_vars

\* triggerCrossEntityValidation has run with a collection empty while a
\* list still held cross-entity entries.
C19_Witness ==
  /\ call.op = "triggerCrossEntityValidation"
  /\ Populated # EntityTypes
  /\ \E e \in EntityTypes : HasCrossEntityEntry(validationErrors[e])

(***************************************************************************)
(* The rules store.  `rules` is RulesStore.rules and `clock` the time      *)
(* new Date() reads; createdAt and updatedAt hold readings of it.          *)
(***************************************************************************)
MaxClock == 2
MaxStoreRules == 2

\* The identifiers generateId() returns.
GeneratedIds == {<<"r", "1">>, <<"r", "2">>, <<"r", "3">>}

\* An identifier no call of generateId() returns.
OtherId == <<"r", "9">>

\* The identifiers the operations are called with.
CalledIds == GeneratedIds \cup {OtherId}

RuleIds(rules_) == {rules_[i].id : i \in 1..Len(rules_)}

\* generateId(): a random string, taken to differ from the ids in use.
generateId == GeneratedIds \ RuleIds(rules)

\* The ruleData addRule is called with (valid co-run rules).
RuleData ==
  {Rule(<<>>, A, <<"d">>, "co-run", priority,
        [NoConfig EXCEPT !.taskIds = <<A, B>>, !.mustRunTogether = Some(TRUE)]) :
     priority \in {1, 2}}

\* Partial<Rule>: a field is None when the update lacks it.
NoUpdates == [id |-> None, enabled |-> None, priority |-> None, updatedAt |-> None]

RuleUpdates ==
  {NoUpdates,
   [NoUpdates EXCEPT !.enabled = Some(FALSE)],
   [NoUpdates EXCEPT !.priority = Some(2)],
   [NoUpdates EXCEPT !.updatedAt = Some(0)],
   [NoUpdates EXCEPT !.id = Some(OtherId)]}

\* new Date(): time does not run backwards between two operations.
Now == {t \in {clock, clock + 1} : t <= MaxClock}

\* { ...rule, ...updates, updatedAt: new Date().toISOString() }
Updated(rule, updates, now) ==
  [rule EXCEPT !.id = IF Has(updates.id) THEN updates.id[1] ELSE @,
               !.enabled = IF Has(updates.enabled) THEN updates.enabled[1] ELSE @,
               !.priority = IF Has(updates.priority) THEN updates.priority[1] ELSE @,
               !.updatedAt = now]

\* [...].sort((a, b) => b.priority - a.priority): a stable sort.
RECURSIVE SortByPriority(_)
SortByPriority(rules_) ==
  IF rules_ = <<>> THEN <<>>
  ELSE LET m == CHOOSE i \in 1..Len(rules_) :
                  /\ \A j \in 1..Len(rules_) : rules_[j].priority <= rules_[i].priority
                  /\ \A j \in 1..(i - 1) : rules_[j].priority < rules_[i].priority
       IN <<rules_[m]>>
          \o SortByPriority([k \in 1..(Len(rules_) - 1) |->
                               IF k < m THEN rules_[k] ELSE rules_[k + 1]])

\* result.splice(startIndex, 1) then result.splice(endIndex, 0, removed)
Moved(rules_, startIndex, endIndex) ==
  LET rest == [k \in 1..(Len(rules_) - 1) |->
                 IF k <= startIndex THEN rules_[k] ELSE rules_[k + 1]]
  IN SubSeq(rest, 1, endIndex) \o <<rules_[startIndex + 1]>>
     \o SubSeq(rest, endIndex + 1, Len(rest))

\* result.map((rule, index) => ({ ...rule, priority: result.length - index, updatedAt }))
Renumbered(result_, now) ==
  [k \in 1..Len(result_) |->
     [result_[k] EXCEPT !.priority = Len(result_) - (k - 1), !.updatedAt = now]]

\* rules.map(rule => ({ ...rule, enabled, updatedAt }))
AllEnabled(rules_, enabled, now) ==
  [k \in 1..Len(rules_) |-> [rules_[k] EXCEPT !.enabled = enabled, !.updatedAt = now]]

RulesStoreInit ==
  /\ clients = <<>> /\ workers = <<>> /\ tasks = <<>>
  /\ call = NoCall
  /\ result = <<>>
  /\ StoreCreated
  /\ RulesCreated

\* An operation of the rules store that reads the time `now`.
RulesSet(op, newRules, now) ==
  /\ rules' = newRules
  /\ clock' = now
  /\ call' = Called(op, "rules", 0)
  /\ UNCHANGED <<clients, workers, tasks, result, storeVars, dataContext>>

\* RULE_TEMPLATES[type]: name, description, type and config of a new rule.
\* createRuleFromTemplate adds priority, enabled and source.
Template(name, description, type, config) ==
  [Rule(<<>>, name, description, type, 0, config) EXCEPT !.enabled = TRUE]

RULE_TEMPLATES(type) ==
  CASE type = "co-run" ->
         Template(<<"C", "o", "-", "r", "u", "n", " ", "T", "a", "s", "k", "s">>,
                  <<"S", "p", "e", "c", "i", "f", "y", " ", "t", "a", "s", "k", "s", " ", "t",
                    "h", "a", "t", " ", "m", "u", "s", "t", " ", "o", "r", " ", "m", "u", "s",
                    "t", " ", "n", "o", "t", " ", "r", "u", "n", " ", "t", "o", "g", "e", "t",
                    "h", "e", "r">>,
                  "co-run",
                  [NoConfig EXCEPT !.taskIds = <<>>, !.mustRunTogether = Some(TRUE)])
    [] type = "slot-restriction" ->
         Template(<<"S", "l", "o", "t", " ", "R", "e", "s", "t", "r", "i", "c", "t", "i", "o",
                    "n">>,
                  <<"L", "i", "m", "i", "t", " ", "a", "v", "a", "i", "l", "a", "b", "l", "e",
                    " ", "s", "l", "o", "t", "s", " ", "f", "o", "r", " ", "s", "p", "e", "c",
                    "i", "f", "i", "c", " ", "w", "o", "r", "k", "e", "r", " ", "o", "r", " ",
                    "c", "l", "i", "e", "n", "t", " ", "g", "r", "o", "u", "p", "s">>,
                  "slot-restriction",
                  [NoConfig EXCEPT !.minCommonSlots = Some(1)])
    [] type = "load-limit" ->
         Template(<<"L", "o", "a", "d", " ", "L", "i", "m", "i", "t">>,
                  <<"S", "e", "t", " ", "m", "a", "x", "i", "m", "u", "m", " ", "w", "o", "r",
                    "k", "l", "o", "a", "d", " ", "l", "i", "m", "i", "t", "s", " ", "f", "o",
                    "r", " ", "w", "o", "r", "k", "e", "r", " ", "g", "r", "o", "u", "p", "s">>,
                  "load-limit",
                  [NoConfig EXCEPT !.workerGroup = Some(<<>>), !.maxSlotsPerPhase = Some(5)])
    [] type = "phase-window" ->
         Template(<<"P", "h", "a", "s", "e", " ", "W", "i", "n", "d", "o", "w">>,
                  <<"R", "e", "s", "t", "r", "i", "c", "t", " ", "t", "a", "s", "k", "s", " ",
                    "t", "o", " ", "s", "p", "e", "c", "i", "f", "i", "c", " ", "p", "h", "a",
                    "s", "e", "s", " ", "o", "r", " ", "t", "i", "m", "e", " ", "w", "i", "n",
                    "d", "o", "w", "s">>,
                  "phase-window",
                  [NoConfig EXCEPT !.taskId = Some(<<>>), !.allowedPhases = <<>>])
    [] type = "pattern-match" ->
         Template(<<"P", "a", "t", "t", "e", "r", "n", " ", "M", "a", "t", "c", "h">>,
                  <<"A", "p", "p", "l", "y", " ", "r", "e", "g", "e", "x", "-", "b", "a", "s",
                    "e", "d", " ", "r", "u", "l", "e", "s", " ", "t", "o", " ", "f", "i", "l",
                    "t", "e", "r", " ", "o", "r", " ", "v", "a", "l", "i", "d", "a", "t", "e",
                    " ", "d", "a", "t", "a">>,
                  "pattern-match",
                  [NoConfig EXCEPT !.field = Some(<<>>), !.pattern = Some(<<>>),
                                   !.action = Some(<<"a", "l", "l", "o", "w">>),
                                   !.entityType = Some(<<"c", "l", "i", "e", "n", "t", "s">>)])
    [] OTHER ->
         Template(<<"P", "r", "e", "c", "e", "d", "e", "n", "c", "e", " ", "O", "v", "e", "r",
                    "r", "i", "d", "e">>,
                  <<"O", "v", "e", "r", "r", "i", "d", "e", " ", "d", "e", "f", "a", "u", "l",
                    "t", " ", "p", "r", "i", "o", "r", "i", "t", "y", " ", "o", "r", "d", "e",
                    "r", "i", "n", "g", " ", "f", "o", "r", " ", "s", "p", "e", "c", "i", "f",
                    "i", "c", " ", "i", "t", "e", "m", "s">>,
                  "precedence-override",
                  [NoConfig EXCEPT !.higherPriorityItems = <<>>, !.lowerPriorityItems = <<>>,
                                   !.entityType = Some(<<"c", "l", "i", "e", "n", "t", "s">>)])

\* The rule types a rule is created from the template of.
TemplateTypes == {"co-run"}

\* addRule(ruleData): validateRule(newRule) only logs a warning, the rule is
\* added whatever it returns.
addRule(ruleData, id, now) ==
  SortByPriority(Append(rules, [ruleData EXCEPT !.id = id, !.createdAt = now,
                                                !.updatedAt = now]))

AddRule ==
  \E ruleData \in RuleData : \E id \in generateId : \E now \in Now :
    /\ Len(rules) < MaxStoreRules
    /\ RulesSet("addRule", addRule(ruleData, id, now), now)

\* createRuleFromTemplate(type)
CreateRuleFromTemplate ==
  \E type \in TemplateTypes : \E id \in generateId : \E now \in Now :
    /\ Len(rules) < MaxStoreRules
    /\ RulesSet("createRuleFromTemplate",
                addRule([RULE_TEMPLATES(type) EXCEPT !.priority = Len(rules) + 1,
                                                     !.enabled = TRUE, !.source = "manual"],
                        id, now),
                now)

UpdateRule ==
  \E id \in CalledIds : \E updates \in RuleUpdates : \E now \in Now :
    RulesSet("updateRule",
             [k \in 1..Len(rules) |->
                IF rules[k].id = id THEN Updated(rules[k], updates, now) ELSE rules[k]],
             now)

DeleteRule ==
  \E id \in CalledIds : \E now \in Now :
    RulesSet("deleteRule",
             SelectSeq(rules, LAMBDA rule : rule.id # id),
             now)

ToggleRuleEnabled ==
  \E id \in CalledIds : \E now \in Now :
    RulesSet("toggleRuleEnabled",
             [k \in 1..Len(rules) |->
                IF rules[k].id = id
                THEN [rules[k] EXCEPT !.enabled = ~@, !.updatedAt = now]
                ELSE rules[k]],
             now)

\* The indexes a drag of a listed rule gives.
ReorderRules ==
  \E startIndex \in 0..(Len(rules) - 1) : \E endIndex \in 0..(Len(rules) - 1) :
    \E now \in Now :
      RulesSet("reorderRules", Renumbered(Moved(rules, startIndex, endIndex), now), now)

EnableAllRules ==
  \E now \in Now : RulesSet("enableAllRules", AllEnabled(rules, TRUE, now), now)

DisableAllRules ==
  \E now \in Now : RulesSet("disableAllRules", AllEnabled(rules, FALSE, now), now)

RulesStoreNext ==
  \/ AddRule
  \/ CreateRuleFromTemplate
  \/ UpdateRule
  \/ DeleteRule
  \/ ToggleRuleEnabled
  \/ ReorderRules
  \/ EnableAllRules
  \/ DisableAllRules

RulesStoreSpec == RulesStoreInit /\ [][RulesStoreNext]_vars

(***************************************************************************)
(* Claims about the rules store.                                           *)
(***************************************************************************)
\* The operations that change rules without adding or removing any.
ChangingOps ==
  {"updateRule", "toggleRuleEnabled", "reorderRules", "enableAllRules", "disableAllRules"}

\* C20: the id of a rule never changes after addRule created it.  A step of
\* updateRule, toggleRuleEnabled, reorderRules, enableAllRules or
\* disableAllRules leaves the collection with the same number of rules
\* under the same ids, and every rule it changed has updatedAt set to the
\* time of the step.
C20_RuleIdsNeverChange ==
  [][call'.op \in ChangingOps
       => /\ Len(rules') = Len(rules)
          /\ RuleIds(rules') = RuleIds(rules)
          /\ \A k \in 1..Len(rules') :
               (\A j \in 1..Len(rules) : rules'[k] # rules[j])
                 => rules'[k].updatedAt = clock']_vars

(***************************************************************************)
(* Claims about overlapping reports.                                       *)
(***************************************************************************)
\* The rows of `rows` whose identifier is empty or missing.
EmptyIdRows(rows, idField) ==
  {i \in 1..Len(rows) : Cell(rows[i], idField) \in {Undef, Null, Str(<<>>)}}

\* The positions in `errors` of the 'Duplicate ID' entries on row rowIndex.
DuplicateEntriesOn(errors, rowIndex) ==
  {k \in 1..Len(errors) : errors[k].rowIndex = rowIndex
                          /\ errors[k].error.msg = "Duplicate ID: "}

TooFewTasks(taskIds) == Len(taskIds) < 2
SomeBlankTask(taskIds) ==
  \E i \in 1..Len(taskIds) : \A k \in 1..Len(taskIds[i]) : IsSpace(taskIds[i][k])
SomeTaskTwice(taskIds) ==
  \E i \in 1..Len(taskIds) : \E j \in 1..Len(taskIds) : i # j /\ taskIds[i] = taskIds[j]

ManyTasksWarning == "Co-run rules with many tasks may impact performance"

Warned(warnings, text) == \E k \in 1..Len(warnings) : warnings[k].msg = text

\* What the claim says of the co-run rule the last call validated.
CoRunVerdict ==
  /\ result.isValid = FALSE
       <=> \/ TooFewTasks(CalledRule.config.taskIds)
           \/ SomeBlankTask(CalledRule.config.taskIds)
           \/ SomeTaskTwice(CalledRule.config.taskIds)
  /\ Warned(result.warnings, ManyTasksWarning) <=> Len(CalledRule.config.taskIds) > 10

\* C22: for a co-run rule with a non-empty name and a priority in 0..100,
\* validateRule returns isValid = false if and only if the rule has fewer
\* than 2 task ids, or some task id is empty after trimming, or some task
\* id occurs twice; more than 10 task ids add a warning and do not change
\* isValid.
C22_CoRunInvalidIff ==
  (/\ call.op = "validateRule"
   /\ CalledRule.type = "co-run"
   /\ CalledRule.name # <<>>
   /\ CalledRule.priority \in 0..100) => CoRunVerdict

\* C22 as amended: the same for a co-run rule whose name is non-empty after
\* trimming; a name of white space alone makes the rule invalid by itself.
C22_TrimmedNameCoRunInvalidIff ==
  (/\ call.op = "validateRule"
   /\ CalledRule.type = "co-run"
   /\ \E k \in 1..Len(CalledRule.name) : ~IsSpace(CalledRule.name[k])
   /\ CalledRule.priority \in 0..100) => CoRunVerdict

\* A named co-run rule with eleven distinct task ids was found valid, with
\* the warning.
C22_Witness ==
  /\ call.op = "validateRule"
  /\ CalledRule.type = "co-run"
  /\ CalledRule.name = A
  /\ Len(CalledRule.config.taskIds) > 10
  /\ result.isValid
  /\ Warned(result.warnings, ManyTasksWarning)

(***************************************************************************)
(* The export of a collection.  The store holds uploaded collections with  *)
(* the validationErrors the upload computed and the timer it set.          *)
(***************************************************************************)
\* The collections the store holds when an export is asked for: one uploaded
\* collection, or three with skills to cover.
ExportInputs ==
  UNION {{<<IF e = "clients" THEN rows ELSE <<>>, IF e = "workers" THEN rows ELSE <<>>,
            IF e = "tasks" THEN rows ELSE <<>>>> : rows \in CollectionsOf(e)} :
           e \in EntityTypes}
  \cup SkillInputs

ExportInit ==
  /\ \E d \in ExportInputs :
       /\ clients = d[1] /\ workers = d[2] /\ tasks = d[3]
       /\ validationErrors = [clients |-> validateAllRows(d[1], "clients", NoData),
                              workers |-> validateAllRows(d[2], "workers", NoData),
                              tasks |-> validateAllRows(d[3], "tasks", NoData)]
  /\ timers = 1
  /\ modificationCommands = <<>>
  /\ errorCorrectionBatches = <<>>
  /\ call = NoCall
  /\ result = <<>>
  /\ RulesCreated

\* new Set(data.validationErrors.map(err => err.rowIndex))
errorRowIndices(errors) == {errors[k].rowIndex : k \in 1..Len(errors)}

\* exportData.filter((_, index) => !errorRowIndices.has(index)), from index on.
RECURSIVE WithoutRows(_, _, _)
WithoutRows(rows, indices, index) ==
  IF index >= Len(rows) THEN <<>>
  ELSE (IF index \in indices THEN <<>> ELSE <<rows[index + 1]>>)
       \o WithoutRows(rows, indices, index + 1)

\* The rows exportEntityData writes to the file.
exportData(rows, errors, cleanDataOnly) ==
  IF cleanDataOnly THEN WithoutRows(rows, errorRowIndices(errors), 0) ELSE rows

\* exportEntityData(entityType) under the export options; it throws when the
\* collection has no rows.
ExportEntityData ==
  \E entityType \in Populated : \E cleanDataOnly \in BOOLEAN :
    /\ call' = Called("exportEntityData", entityType, 0)
    /\ result' = [cleanDataOnly |-> cleanDataOnly,
                  exportData |-> exportData(Rows(entityType), validationErrors[entityType],
                                            cleanDataOnly)]
    /\ UNCHANGED <<clients, workers, tasks, storeVars, ruleVars>>

ExportNext ==
  \/ TriggerCrossEntityValidation
  \/ ExportEntityData

ExportSpec == ExportInit /\ [][ExportNext]_vars

(***************************************************************************)
(* Claims about the export.                                                *)
(***************************************************************************)
\* The indexes of the rows with an entry of severity 'error'.
ErrorRows(errors) == {errors[k].rowIndex : k \in {j \in 1..Len(errors) : errors[j].severity = "error"}}

\* The rows of `rows` at the indexes outside `excluded`, in order.
RECURSIVE RowsOutside(_, _)
RowsOutside(rows, excluded) ==
  IF rows = <<>> THEN <<>>
  ELSE RowsOutside(SubSeq(rows, 1, Len(rows) - 1), excluded)
       \o (IF (Len(rows) - 1) \in excluded THEN <<>> ELSE <<rows[Len(rows)]>>)

\* C23: warnings do not block export.  With the clean-data-only option,
\* exportEntityData excludes a row if and only if the validationErrors of
\* the collection hold an entry of severity 'error' for its index; a row
\* with 'warning' entries only is exported.
C23_WarningsDoNotBlockExport ==
  (call.op = "exportEntityData" /\ result.cleanDataOnly) =>
    result.exportData = RowsOutside(CalledRows, ErrorRows(validationErrors[call.entityType]))

\* C24: in every reachable state of the data store, every entry of a
\* collection's validationErrors refers to that collection: its rowIndex is
\* an index into the collection's current rows and its column is a column
\* of the collection's entity type.  In particular the workers list holds
\* no entry on RequestedTaskIDs, RequiredSkills or PreferredPhases and the
\* clients list none on RequiredSkills or PreferredPhases.
C24_EntriesReferToOwnCollection ==
  \A e \in EntityTypes : \A k \in 1..Len(validationErrors[e]) :
    /\ validationErrors[e][k].rowIndex \in 0..(Len(Rows(e)) - 1)
    /\ validationErrors[e][k].column \in Columns(e)

\* C25: validatePhaseSlotSaturation gives a task row a saturation warning
\* for phase p only if the row contributed to the demand of p: p is one of
\* the phases its PreferredPhases denotes and its Duration is non-empty.  A
\* task whose PreferredPhases is '[10]' gets no warning for phase 1.
C25_WarningOnlyForContributors ==
  call.op = "validatePhaseSlotSaturation" =>
    \A k \in 1..Len(result) :
      result[k].severity = "warning" =>
        /\ Truthy(tasks[result[k].rowIndex + 1]["Duration"])
        /\ \E p \in PhasesOf(tasks[result[k].rowIndex + 1]["PreferredPhases"]) :
             NatToStr(p) = result[k].error.args[1]

\* C26: a schema validation pass (validateAllRows without cross-entity
\* data) never reports one violation twice: its result holds no two entries
\* with the same rowIndex, the same column and the same severity.
C26_NoViolationReportedTwice ==
  call.op = "validateAllRows" =>
    \A j \in 1..Len(result) : \A k \in 1..Len(result) :
      (/\ result[j].rowIndex = result[k].rowIndex
       /\ result[j].column = result[k].column
       /\ result[j].severity = result[k].severity) => j = k

\* C27: updateCell, applyModificationCommand and applyErrorCorrections never
\* change the number of rows of any collection and change only the
\* addressed collection: a rowIndex outside the current rows changes no
\* row, and the rows of the two other collections are left unchanged.
C27_EditsKeepRowsInPlace ==
  [][call'.op \in EditingOps
       => /\ Len(clients') = Len(clients)
          /\ Len(workers') = Len(workers)
          /\ Len(tasks') = Len(tasks)
          /\ call'.entityType # "clients" => clients' = clients
          /\ call'.entityType # "workers" => workers' = workers
          /\ call'.entityType # "tasks" => tasks' = tasks
          /\ (call'.op = "updateCell" /\ call'.index >= Len(Rows(call'.entityType)))
               => <<clients', workers', tasks'>> = <<clients, workers, tasks>>]_vars

\* C28: in every reachable state of the rules store the rule collection is
\* ordered by non-increasing priority.
C28_RulesOrderedByPriority ==
  \A i \in 1..Len(rules) : \A j \in 1..Len(rules) :
    i < j => rules[i].priority >= rules[j].priority

\* C29: in every reachable state of the rules store, no rule for which
\* validateRule reports at least one error is in the collection with
\* enabled = true.
C29_NoInvalidRuleEnabled ==
  \A i \in 1..Len(rules) : validateRule(rules[i]).errors # <<>> => ~rules[i].enabled

\* The rows and the command statuses are as they were before the step.
RowsAndStatusesKept ==
  /\ <<clients', workers', tasks'>> = <<clients, workers, tasks>>
  /\ Len(modificationCommands') = Len(modificationCommands)
  /\ \A k \in 1..Len(modificationCommands) :
       modificationCommands'[k].status = modificationCommands[k].status

\* C30: the changes of a modification command are applied at most once and
\* only while it is pending.  A step of applyModificationCommand for a
\* command whose status is already 'applied' or 'rejected' leaves the rows
\* and the command statuses unchanged, and one with an id that matches no
\* command leaves the whole store state unchanged.
C30_CommandAppliedOnlyWhilePending ==
  [][call'.op = "applyModificationCommand"
       => /\ (call'.index > 0 /\ modificationCommands[call'.index].status # "pending")
               => RowsAndStatusesKept
          /\ call'.index = 0
               => UNCHANGED <<clients, workers, tasks, storeVars>>]_vars

====
